---- MODULE Spec2Model ----
(***************************************************************************)
(* A model of the batch orchestrator of the TAF tag helper backend:        *)
(* BatchProcessingService (services/batch_processing_service.py), the      *)
(* request handlers in front of it (api/batch.py) and the model-number     *)
(* lookup of VolumeScanner (services/volume_scanner.py).                   *)
(*                                                                         *)
(* Python values are encoded as follows.                                   *)
(*  - Strings whose characters matter (the 'no' and 'model' fields of a    *)
(*    catalog entry) are sequences of character codes: 0..9 are the digit  *)
(*    characters, Letter is any other character.                           *)
(*  - Strings that are only copied or compared are TLA+ strings.           *)
(*  - None is NoneS among character sequences and NoneT among TLA+         *)
(*    strings; an optional record is a sequence of length 0 or 1.          *)
(*  - A dict is the sequence of its (key, value) pairs in insertion order. *)
(*  - An awaited collaborator call is one step whose outcome (a value or   *)
(*    a raised exception) is chosen by the environment.                    *)
(***************************************************************************)
EXTENDS Integers, Sequences, FiniteSets, TLC

(***************************************************************************)
(* Bounds of the model.                                                    *)
(***************************************************************************)
MaxSel == 2        \* longest list of selections that is processed in full
MaxCat == 2        \* most entries in the initial catalog document
MaxPaths == 3      \* longest list of file paths that is analyzed in full
MaxItems == 2      \* longest list of search items that is searched in full
MaxNow == 12       \* last minute the clock reaches
MaxText == 3       \* longest text that is normalized
MaxTonies == 3     \* most entries of a loaded official catalog
MaxSegments == 5   \* most hyphen-separated parts of a file name
MaxPairSel == 1    \* longest list of selections of two overlapping requests
MaxPairCat == 1    \* most entries in the catalog two overlapping requests start from
MaxOwnPaths == 1   \* longest list of paths handed to a service that lives on
MaxBothPaths == 2  \* longest list of paths of two overlapping analyses

(***************************************************************************)
(* Program constants.                                                      *)
(***************************************************************************)
MaxProcessBatch == 100      \* api/batch.py: "Maximum 100 items per batch"
MaxAnalyzeBatch == 100      \* api/batch.py: "Maximum 100 files per batch"
MaxSearchBatch == 50        \* api/batch.py: "Maximum 50 items per search"
CustomModelFloor == 900000  \* volume_scanner.py: max_num = 900000
FallbackModel == 900001     \* batch_processing_service.py: next_model = 900001

(***************************************************************************)
(* Character sequences: str(int), int(str), str.startswith.                *)
(***************************************************************************)
Letter == 9 + 1             \* the code of a character that is not a digit
NoneS == <<-1>>             \* None where a character sequence is expected
NonStr == <<-2>>            \* a JSON value that is not a string (a number)
NoKey == <<-3>>             \* the key is absent from the dict
NoneT == "None"             \* None where a TLA+ string is expected

IsChars(s) == \A i \in 1..Len(s) : s[i] \in 0..Letter

RECURSIVE Digits(_)
\* str(n) for an int n >= 0
Digits(n) == IF n < 10 THEN <<n>> ELSE Digits(n \div 10) \o <<n % 10>>

\* int(s) succeeds on a str of digits (ValueError otherwise)
IsNumeral(s) == IsChars(s) /\ Len(s) > 0 /\ \A i \in 1..Len(s) : s[i] \in 0..9

RECURSIVE ToInt(_)
ToInt(s) == IF Len(s) = 0 THEN 0
            ELSE 10 * ToInt(SubSeq(s, 1, Len(s) - 1)) + s[Len(s)]

StartsWith(s, p) == Len(s) >= Len(p) /\ SubSeq(s, 1, Len(p)) = p

CustomPrefix == <<9, 0, 0, 0>>     \* model.startswith("9000")

Max(a, b) == IF a >= b THEN a ELSE b

Range(q) == { q[k] : k \in 1..Len(q) }

(***************************************************************************)
(* Catalog entries (records of tonies.custom.json) and selections.         *)
(***************************************************************************)
ExistingEntry(no, model) ==
    [no |-> no, model |-> model, audio_id |-> <<>>, hash |-> <<>>,
     title |-> "Old", series |-> "Old", episodes |-> "", tracks |-> <<>>,
     release |-> "0", language |-> "de-de", category |-> "custom", pic |-> ""]

\* The entries an initial catalog document is made of: custom models below
\* and above 900099, a model without the custom prefix, a model and a 'no'
\* that are not numerals, an entry without 'no' and a model that is a JSON
\* number instead of a string.
EntrySet ==
    { ExistingEntry(<<0>>, <<9, 0, 0, 0, 0, 1>>),
      ExistingEntry(<<7>>, <<9, 0, 0, 0, 9, 9>>),
      ExistingEntry(<<Letter>>, <<9, 0, 0, 1, 0, 0>>),
      ExistingEntry(NoKey, <<1, 0, 0, 0, 0>>),
      ExistingEntry(<<3>>, <<9, 0, 0, 0, Letter>>),
      ExistingEntry(<<1, 2>>, NonStr) }

SeqsUpTo(S, n) == UNION { [1..k -> S] : k \in 0..n }

Catalogs == SeqsUpTo(EntrySet, MaxCat)

NoIndex == -1    \* tonie_index is None

Selection(path, series, url, aid, h) ==
    [taf_path |-> path, source |-> "manual", tonie_index |-> NoIndex,
     series |-> series, episodes |-> "Folge 1", pic_url |-> url,
     audio_id |-> aid, hash |-> h, language |-> "de-de"]

\* The second selection was confirmed from a candidate of the official
\* catalog: it carries the position the entry had in the snapshot that was
\* loaded when the candidate was produced.
SelectionSet ==
    { Selection("a/x.taf", "Alpha", "", NoneT, NoneT),
      [Selection("b/y.taf", "Beta", "http://img/1", "4711", "cafe")
          EXCEPT !.source = "tonies_json", !.tonie_index = 0] }

\* The request bodies: every list of at most MaxSel selections, and one list
\* that is one selection longer than the cap of the handler.
SelectionLists ==
    SeqsUpTo(SelectionSet, MaxSel)
      \cup { [k \in 1..(MaxProcessBatch + 1) |-> Selection("a/x.taf", "Alpha", "", NoneT, NoneT)] }

(***************************************************************************)
(* VolumeScanner.get_next_custom_model_number.  file is what the scanner   *)
(* finds at config/tonies.custom.json: st is "missing", "unreadable" (open *)
(* or json.load raises) or "ok" with the parsed list in tonies.            *)
(***************************************************************************)
RECURSIVE HighestCustom(_, _)
\* the loop over tonies: max_num after the entries of t, starting from m
HighestCustom(t, m) ==
    IF t = <<>> THEN m
    ELSE LET model == IF Head(t).model = NoKey THEN <<>> ELSE Head(t).model
         IN  HighestCustom(Tail(t),
                 IF StartsWith(model, CustomPrefix) /\ IsNumeral(model)
                 THEN Max(m, ToInt(model)) ELSE m)

\* model.startswith raises AttributeError when model is not a str
LookupRaisesInside(t) == \E i \in 1..Len(t) : t[i].model = NonStr

GetNextCustomModelNumber(file) ==
    IF file.st = "missing" THEN Digits(FallbackModel)
    ELSE IF file.st = "unreadable" \/ LookupRaisesInside(file.tonies)
         THEN Digits(FallbackModel)
         ELSE Digits(HighestCustom(file.tonies, CustomModelFloor) + 1)

(***************************************************************************)
(* The value of next_model: a str (the scanner's return value) or an int   *)
(* (the fallback of process_batch when the lookup raises).                 *)
(***************************************************************************)
PyStrVal(s) == [t |-> "str", s |-> s, n |-> 0]
PyIntVal(n) == [t |-> "int", s |-> <<>>, n |-> n]

\* str(v)
PyStr(v) == IF v.t = "str" THEN v.s ELSE Digits(v.n)

\* v += 1 raises TypeError on a str
AddOneRaises(v) == v.t = "str"
AddOne(v) == PyIntVal(v.n + 1)

TypeErrorText == "can only concatenate str (not int) to str"

(***************************************************************************)
(* Files, directory listings and the official catalog, as analyze_batch    *)
(* sees them.  A path is the pair of os.path.dirname and os.path.basename. *)
(***************************************************************************)
Path(dir, name) == [dir |-> dir, name |-> name]

PathSet ==
    { Path(d, n) : d \in {"a", "b"}, n \in {"x.taf", "y.taf"} } \cup { Path("b", "z.taf") }

\* The request bodies: every list of at most MaxPaths paths, and one list
\* that is one path longer than the cap of the handler.
PathLists ==
    SeqsUpTo(PathSet, MaxPaths)
      \cup { [k \in 1..(MaxAnalyzeBatch + 1) |-> Path("a", "x.taf")] }

\* One file of a directory listing; tafHeader is absent or one record.
IndexFile(name, header) == [name |-> name, tafHeader |-> header]

TafHeader(aid, h) == <<[audioId |-> aid, sha1Hash |-> h]>>

\* What get_file_index returns for a directory: in "a" both files, the
\* second without a header; in any other directory the first file alone.
Listing(d) ==
    IF d = "a"
    THEN <<IndexFile("x.taf", TafHeader("id-" \o d, "sha-" \o d)), IndexFile("y.taf", <<>>)>>
    ELSE <<IndexFile("x.taf", TafHeader("id-" \o d, "sha-" \o d))>>

\* tonies.json as the server returns it
OfficialTonies ==
    <<[series |-> "Alpha", episodes |-> "Folge 1", model |-> <<1, 0, 0, 0, 0>>],
      [series |-> "x", episodes |-> "Folge 1", model |-> <<1, 0, 0, 0, 1>>],
      [series |-> "y", episodes |-> "Folge 2", model |-> <<1, 0, 0, 0, 2>>]>>

\* A string of a path or of tonies.json that is taken apart, as the
\* sequence of its characters
Chars(s) ==
    CASE s = "Alpha" -> <<"A", "l", "p", "h", "a">>
      [] s = "Folge" -> <<"F", "o", "l", "g", "e">>
      [] s = "Folge 1" -> <<"F", "o", "l", "g", "e", " ", "1">>
      [] s = "Folge 2" -> <<"F", "o", "l", "g", "e", " ", "2">>
      [] s = "" -> <<>>
      [] OTHER -> <<s>>

\* os.path.basename of a path, as the sequence of its tokens
NameTokens(name) ==
    CASE name = "x.taf" -> <<"x", ".taf">>
      [] name = "y.taf" -> <<"y", ".taf">>
      [] name = "z.taf" -> <<"z", ".taf">>

RECURSIVE Spelled(_)
\* A sequence of tokens as the sequence of its characters
Spelled(tokens) ==
    IF tokens = <<"<None>">> \/ tokens = <<>> THEN tokens
    ELSE Chars(Head(tokens)) \o Spelled(Tail(tokens))

\* A dict as the sequence of its items: d[key] = value keeps the place of a
\* key that is present and appends a new one.
DictHas(d, key) == \E k \in 1..Len(d) : d[k][1] = key

DictSet(d, key, value) ==
    IF DictHas(d, key)
    THEN [k \in 1..Len(d) |-> IF d[k][1] = key THEN <<key, value>> ELSE d[k]]
    ELSE Append(d, <<key, value>>)

DictGet(d, key) == d[CHOOSE k \in 1..Len(d) : d[k][1] = key][2]

DictKeys(d) == [k \in 1..Len(d) |-> d[k][1]]

NoTime == -1     \* _last_load is None

\* analyze_batch before its first statement, with a matching service that
\* has just been constructed
AnIdle ==
    [taf_paths |-> <<>>, tonies_list |-> <<>>, series_index |-> <<>>,
     last_load |-> NoTime,
     by_directory |-> <<>>, pending |-> {}, fetched |-> <<>>, headers |-> <<>>]

\* search_metadata_batch before its first statement
\* (terms: the search terms handed to search_covers so far)
SmIdle ==
    [items |-> <<>>, terms |-> <<>>, answers |-> <<>>, results |-> <<>>,
     found_count |-> 0, i |-> 1]

(***************************************************************************)
(* Search items.  A string that is taken apart is the sequence of its      *)
(* tokens; " ", "_" and ".taf" are tokens of their own.                    *)
(***************************************************************************)
NoneW == <<"<None>">>       \* None where a token sequence is expected

SearchItem(dir, name, series, episode) ==
    [taf_path |-> [dir |-> dir, name |-> name], series |-> series, episode |-> episode]

ItemSet ==
    { SearchItem("a", <<"Der", "_", "Wolf", ".taf">>, NoneW, NoneW),
      SearchItem("a", <<"Der", "_", "Wolf", ".taf">>, <<>>, <<>>),
      SearchItem("b", <<"y", ".taf">>, <<"Alpha">>, <<"Folge", " ", "1">>) }

\* The request bodies: every list of at most MaxItems items, and one list
\* that is one item longer than the cap of the handler.
ItemLists ==
    SeqsUpTo(ItemSet, MaxItems)
      \cup { [k \in 1..(MaxSearchBatch + 1) |-> SearchItem("b", <<"y", ".taf">>, <<"Alpha">>, <<>>)] }

\* What search_covers can return: nothing, or covers with a score.
CoverLists ==
    { <<>>,
      <<[url |-> "http://img/1", score |-> 80], [url |-> "http://img/2", score |-> 40]>> }

(***************************************************************************)
(* State.                                                                  *)
(*  catalog  the custom catalog document held by the media server          *)
(*  pics     the cover files in the custom image directory                 *)
(*  slots    requests that may still arrive                                *)
(*  op, pc   per request: the operation it runs and where it stands        *)
(*  pb       per request: the locals of process_batch                      *)
(*  an       per request: the locals of analyze_batch and the state of its *)
(*           matching service                                              *)
(*  sm       per request: the locals of search_metadata_batch              *)
(*  now      the clock, in minutes                                         *)
(*  io       per request: the collaborator calls it has made, in order     *)
(*  resp     per request: the response, once there is one                  *)
(*  fn       a call of one function of a helper class on its own: its      *)
(*           arguments and, once it has returned, its result               *)
(***************************************************************************)
VARIABLES catalog, pics, now, slots, op, pc, pb, an, sm, io, resp, fn

vars == <<catalog, pics, now, slots, op, pc, pb, an, sm, io, resp, fn>>

Calls == {1, 2}

NoResp == [kind |-> "none"]

\* process_batch before its first statement
PbIdle ==
    [selections |-> <<>>, current_tonies |-> <<>>, next_model |-> PyIntVal(0),
     max_no |-> -1, results |-> <<>>, successful |-> 0, failed |-> 0, i |-> 1,
     loaded |-> <<>>, file |-> [st |-> "missing", tonies |-> <<>>],
     lookup |-> "none", saved |-> <<>>, reload |-> "none"]

\* The first n requests are posted to routes chosen freely.  Only
\* process_batch reads or writes the custom catalog, so the document is
\* empty when no request is posted to that route.
Quiet(n) ==
    /\ op \in [Calls -> {"none", "process", "analyze", "search"}]
    /\ \A c \in Calls : op[c] = "none" <=> c > n
    /\ catalog \in IF \E c \in Calls : op[c] = "process" THEN Catalogs ELSE {<<>>}
    /\ pics = {}
    /\ now = 0
    /\ slots = n
    /\ pc = [c \in Calls |-> "idle"]
    /\ pb = [c \in Calls |-> PbIdle]
    /\ an = [c \in Calls |-> AnIdle]
    /\ sm = [c \in Calls |-> SmIdle]
    /\ io = [c \in Calls |-> <<>>]
    /\ resp = [c \in Calls |-> NoResp]

NoCall == [f |-> "none"]

InitWith(n) == Quiet(n) /\ fn = NoCall

Init == InitWith(1)

\* Requests are numbered in the order they arrive.
NextCall(c) == slots > 0 /\ pc[c] = "idle" /\ \A d \in Calls : d < c => pc[d] # "idle"

Rejected(detail) == [kind |-> "rejected", status |-> 400, detail |-> detail]

(***************************************************************************)
(* api/batch.py, process_batch: the handler in front of the service.       *)
(***************************************************************************)
ApiProcessBatch(c) ==
    /\ NextCall(c) /\ op[c] = "process"
    /\ \E sels \in SelectionLists :
        /\ slots' = slots - 1
        /\ IF sels = <<>>
           THEN /\ resp' = [resp EXCEPT ![c] =
                      [kind |-> "process", total |-> 0, successful |-> 0,
                       failed |-> 0, items |-> <<>>]]
                /\ pc' = [pc EXCEPT ![c] = "done"]
                /\ pb' = [pb EXCEPT ![c].selections = sels]
           ELSE IF Len(sels) > MaxProcessBatch
           THEN /\ resp' = [resp EXCEPT ![c] = Rejected("Maximum 100 items per batch")]
                /\ pc' = [pc EXCEPT ![c] = "done"]
                /\ pb' = [pb EXCEPT ![c].selections = sels]
           ELSE /\ resp' = resp
                /\ pc' = [pc EXCEPT ![c] = "load"]
                /\ pb' = [pb EXCEPT ![c].selections = sels]
    /\ UNCHANGED <<fn, catalog, pics, io, op, now, an, sm>>

(***************************************************************************)
(* process_batch, lines 307-341: the catalog load, the model-number lookup *)
(* and the scan for the highest 'no'.                                      *)
(***************************************************************************)
LoadFailedItem(s) ==
    [taf_path |-> s.taf_path, success |-> FALSE,
     error |-> "Failed to load current tonies: error",
     model_number |-> NoneS, cover_path |-> NoneT, tonie_entry |-> <<>>]

\* int(tonie.get('no', 0)) raises ValueError or TypeError unless 'no' is
\* absent or a numeral
RECURSIVE MaxNo(_, _)
MaxNo(t, m) ==
    IF t = <<>> THEN m
    ELSE MaxNo(Tail(t),
               IF Head(t).no = NoKey THEN Max(m, 0)
               ELSE IF IsNumeral(Head(t).no) THEN Max(m, ToInt(Head(t).no))
               ELSE m)

\* What the scanner can find on disk while the server holds doc.
FilesFor(doc) ==
    { [st |-> "ok", tonies |-> doc],
      [st |-> "missing", tonies |-> <<>>],
      [st |-> "unreadable", tonies |-> <<>>] }

\* A response that counts every item as successful.
ProcessResponseAllSuccessful(f) ==
    [kind |-> "process", total |-> Len(f.selections), successful |-> Len(f.results),
     failed |-> 0, items |-> f.results]

\* lines 424-429
ProcessResponse(f) ==
    [kind |-> "process", total |-> Len(f.selections), successful |-> f.successful,
     failed |-> f.failed, items |-> f.results]

LoadCurrentTonies(c) ==
    /\ op[c] = "process" /\ pc[c] = "load"
    /\ io' = [io EXCEPT ![c] = Append(@, "get_tonies_custom_json")]
    /\ \/ \* the load raises: every selection is reported failed
          /\ resp' = [resp EXCEPT ![c] =
                [kind |-> "process", total |-> Len(pb[c].selections),
                 successful |-> 0, failed |-> Len(pb[c].selections),
                 items |-> [k \in 1..Len(pb[c].selections) |->
                               LoadFailedItem(pb[c].selections[k])]]]
          /\ pc' = [pc EXCEPT ![c] = "done"]
          /\ pb' = pb
       \/ \* the load returns the document; the lookup returns a str
          \E file \in FilesFor(catalog) :
            /\ pb' = [pb EXCEPT ![c].current_tonies = catalog,
                                ![c].loaded = catalog,
                                ![c].file = file,
                                ![c].lookup = "returned",
                                ![c].next_model = PyStrVal(GetNextCustomModelNumber(file)),
                                ![c].max_no = MaxNo(catalog, -1)]
            /\ pc' = [pc EXCEPT ![c] = "select"]
            /\ resp' = resp
       \/ \* the load returns the document; the lookup raises
          /\ pb' = [pb EXCEPT ![c].current_tonies = catalog,
                              ![c].loaded = catalog,
                              ![c].lookup = "raised",
                              ![c].next_model = PyIntVal(FallbackModel),
                              ![c].max_no = MaxNo(catalog, -1)]
          /\ pc' = [pc EXCEPT ![c] = "select"]
          /\ resp' = resp
    /\ UNCHANGED <<fn, catalog, pics, slots, op, now, an, sm>>

(***************************************************************************)
(* process_batch, lines 343-402: one pass of the loop over the selections. *)
(***************************************************************************)
Truthy(v) == v # NoneT /\ v # ""

\* _download_cover: the file name is derived from the URL alone
CoverFile(url) == "cover_" \o url \o ".jpg"
CoverPath(url) == "/library/own/pics/" \o CoverFile(url)

\* An entry whose names are read from the official catalog at the position
\* the selection carries.
TonieEntryByIndex(sel, no, model_number, cover_path) ==
    LET k == sel.tonie_index + 1
        named == IF k \in 1..Len(OfficialTonies)
                 THEN OfficialTonies[k] ELSE [series |-> sel.series, episodes |-> sel.episodes]
    IN  [no |-> Digits(no), model |-> model_number,
         audio_id |-> IF Truthy(sel.audio_id) THEN <<sel.audio_id>> ELSE <<>>,
         hash |-> IF Truthy(sel.hash) THEN <<sel.hash>> ELSE <<>>,
         title |-> named.series, series |-> named.series, episodes |-> named.episodes,
         tracks |-> <<>>, release |-> "0", language |-> sel.language,
         category |-> "custom", pic |-> cover_path]

TonieEntry(sel, no, model_number, cover_path) ==
    [no |-> Digits(no), model |-> model_number,
     audio_id |-> IF Truthy(sel.audio_id) THEN <<sel.audio_id>> ELSE <<>>,
     hash |-> IF Truthy(sel.hash) THEN <<sel.hash>> ELSE <<>>,
     title |-> sel.series, series |-> sel.series, episodes |-> sel.episodes,
     tracks |-> <<>>, release |-> "0", language |-> sel.language,
     category |-> "custom", pic |-> cover_path]

SuccessItem(sel, model_number, cover_path, entry) ==
    [taf_path |-> sel.taf_path, success |-> TRUE, error |-> NoneT,
     model_number |-> model_number, cover_path |-> cover_path,
     tonie_entry |-> <<entry>>]

FailedItem(sel, error) ==
    [taf_path |-> sel.taf_path, success |-> FALSE, error |-> error,
     model_number |-> NoneS, cover_path |-> NoneT, tonie_entry |-> <<>>]

\* A loop body that puts the new entry in front of the document.
AfterSelectionPrepends(f, cover_path) ==
    LET sel == f.selections[f.i]
        no == f.max_no + 1
        model_number == PyStr(f.next_model)
        entry == TonieEntry(sel, no, model_number, cover_path)
    IN  IF AddOneRaises(f.next_model)
        THEN [f EXCEPT !.max_no = no,
                       !.results = Append(@, FailedItem(sel, TypeErrorText)),
                       !.failed = @ + 1,
                       !.i = @ + 1]
        ELSE [f EXCEPT !.max_no = no,
                       !.next_model = AddOne(@),
                       !.current_tonies = <<entry>> \o @,
                       !.results = Append(@, SuccessItem(sel, model_number, cover_path, entry)),
                       !.successful = @ + 1,
                       !.i = @ + 1]

\* A loop body that hands the same model number to every selection.
AfterSelectionSameModel(f, cover_path) ==
    LET sel == f.selections[f.i]
        no == f.max_no + 1
        model_number == PyStr(f.next_model)
        entry == TonieEntry(sel, no, model_number, cover_path)
    IN  IF AddOneRaises(f.next_model)
        THEN [f EXCEPT !.max_no = no,
                       !.results = Append(@, FailedItem(sel, TypeErrorText)),
                       !.failed = @ + 1,
                       !.i = @ + 1]
        ELSE [f EXCEPT !.max_no = no,
                       !.current_tonies = Append(@, entry),
                       !.results = Append(@, SuccessItem(sel, model_number, cover_path, entry)),
                       !.successful = @ + 1,
                       !.i = @ + 1]

\* The frame after the body of the loop has run for selection f.i with the
\* given cover path.
AfterSelection(f, cover_path) ==
    LET sel == f.selections[f.i]
        no == f.max_no + 1
        model_number == PyStr(f.next_model)
        entry == TonieEntry(sel, no, model_number, cover_path)
    IN  IF AddOneRaises(f.next_model)
        THEN [f EXCEPT !.max_no = no,
                       !.results = Append(@, FailedItem(sel, TypeErrorText)),
                       !.failed = @ + 1,
                       !.i = @ + 1]
        ELSE [f EXCEPT !.max_no = no,
                       !.next_model = AddOne(@),
                       !.current_tonies = Append(@, entry),
                       !.results = Append(@, SuccessItem(sel, model_number, cover_path, entry)),
                       !.successful = @ + 1,
                       !.i = @ + 1]

\* A loop exit that attempts the write whatever the number of successes.
AfterLoopAlwaysSaves(c, f) ==
    IF f.i <= Len(f.selections)
    THEN pc' = pc /\ resp' = resp
    ELSE pc' = [pc EXCEPT ![c] = "save"] /\ resp' = resp

\* After the loop: the write is attempted only if an item succeeded.
AfterLoop(c, f) ==
    IF f.i <= Len(f.selections)
    THEN pc' = pc /\ resp' = resp
    ELSE IF f.successful > 0
    THEN pc' = [pc EXCEPT ![c] = "save"] /\ resp' = resp
    ELSE pc' = [pc EXCEPT ![c] = "done"]
         /\ resp' = [resp EXCEPT ![c] = ProcessResponse(f)]

ProcessSelection(c) ==
    /\ op[c] = "process" /\ pc[c] = "select"
    /\ LET url == pb[c].selections[pb[c].i].pic_url
       IN  \/ \* no cover is asked for
              /\ url = ""
              /\ pb' = [pb EXCEPT ![c] = AfterSelection(@, "")]
              /\ UNCHANGED <<fn, pics, io>>
           \/ \* the cover is downloaded and stored
              /\ url # ""
              /\ pics' = pics \cup {CoverFile(url)}
              /\ io' = [io EXCEPT ![c] = Append(@, "download_image")]
              /\ pb' = [pb EXCEPT ![c] = AfterSelection(@, CoverPath(url))]
           \/ \* the download raises: the item goes on without a cover
              /\ url # ""
              /\ io' = [io EXCEPT ![c] = Append(@, "download_image")]
              /\ pb' = [pb EXCEPT ![c] = AfterSelection(@, "")]
              /\ pics' = pics
    /\ AfterLoop(c, pb'[c])
    /\ UNCHANGED <<fn, catalog, slots, op, now, an, sm>>

(***************************************************************************)
(* process_batch, lines 404-429: the write of the whole document, the      *)
(* reload signal and the response.                                         *)
(***************************************************************************)
SaveErrorText == "Failed to save: error"

\* A handler of the write failure that leaves the items as they were.
FlipItemKeeps(r) == r

\* lines 417-422: every item marked successful is flipped to failed
FlipItem(r) == IF r.success THEN [r EXCEPT !.success = FALSE, !.error = SaveErrorText]
               ELSE r

\* A handler of the write failure that flips the items and forgets the counts.
MarkAllFailedNoCount(f) ==
    [f EXCEPT !.results = [k \in 1..Len(f.results) |-> FlipItem(f.results[k])]]

MarkAllFailed(f) ==
    LET n == Cardinality({k \in 1..Len(f.results) : f.results[k].success})
    IN  [f EXCEPT !.results = [k \in 1..Len(f.results) |-> FlipItem(f.results[k])],
                  !.successful = @ - n,
                  !.failed = @ + n]

\* A write that appends the entries of the run to the document as it is
\* stored at the time of the write.
SaveToniesMerging(c) ==
    /\ op[c] = "process" /\ pc[c] = "save"
    /\ io' = [io EXCEPT ![c] = Append(@, "save_tonies_custom_json")]
    /\ \/ LET merged == catalog \o SubSeq(pb[c].current_tonies, Len(pb[c].loaded) + 1,
                                          Len(pb[c].current_tonies))
          IN  /\ catalog' = merged
              /\ pb' = [pb EXCEPT ![c].saved = Append(@, merged)]
              /\ pc' = [pc EXCEPT ![c] = "reload"]
              /\ resp' = resp
       \/ /\ catalog' = catalog
          /\ pb' = [pb EXCEPT ![c] = MarkAllFailed(@)]
          /\ pc' = [pc EXCEPT ![c] = "done"]
          /\ resp' = [resp EXCEPT ![c] = ProcessResponse(pb'[c])]
    /\ UNCHANGED <<fn, pics, slots, op, now, an, sm>>

SaveTonies(c) ==
    /\ op[c] = "process" /\ pc[c] = "save"
    /\ io' = [io EXCEPT ![c] = Append(@, "save_tonies_custom_json")]
    /\ \/ \* the write succeeds: the document replaces the stored one
          /\ catalog' = pb[c].current_tonies
          /\ pb' = [pb EXCEPT ![c].saved = Append(@, pb[c].current_tonies)]
          /\ pc' = [pc EXCEPT ![c] = "reload"]
          /\ resp' = resp
       \/ \* the write raises
          /\ catalog' = catalog
          /\ pb' = [pb EXCEPT ![c] = MarkAllFailed(@)]
          /\ pc' = [pc EXCEPT ![c] = "done"]
          /\ resp' = [resp EXCEPT ![c] = ProcessResponse(pb'[c])]
    /\ UNCHANGED <<fn, pics, slots, op, now, an, sm>>

\* TeddyCloudClient.trigger_config_reload is best-effort: an error is logged
\* by the client and not propagated, so the call returns either way.
ReloadOutcomes == {"ok", "failed"}

\* A reload signal whose failure undoes the items, as it would if the error
\* reached the handler of the write.
TriggerConfigReloadFlips(c) ==
    /\ op[c] = "process" /\ pc[c] = "reload"
    /\ io' = [io EXCEPT ![c] = Append(@, "trigger_config_reload")]
    /\ \E outcome \in ReloadOutcomes :
          pb' = [pb EXCEPT ![c] = IF outcome = "failed"
                                  THEN [MarkAllFailed(@) EXCEPT !.reload = outcome]
                                  ELSE [@ EXCEPT !.reload = outcome]]
    /\ pc' = [pc EXCEPT ![c] = "done"]
    /\ resp' = [resp EXCEPT ![c] = ProcessResponse(pb'[c])]
    /\ UNCHANGED <<fn, catalog, pics, slots, op, now, an, sm>>

TriggerConfigReload(c) ==
    /\ op[c] = "process" /\ pc[c] = "reload"
    /\ io' = [io EXCEPT ![c] = Append(@, "trigger_config_reload")]
    /\ \E outcome \in ReloadOutcomes :
          pb' = [pb EXCEPT ![c].reload = outcome]
    /\ pc' = [pc EXCEPT ![c] = "done"]
    /\ resp' = [resp EXCEPT ![c] = ProcessResponse(pb'[c])]
    /\ UNCHANGED <<fn, catalog, pics, slots, op, now, an, sm>>

ProcessNext == \E c \in Calls :
    \/ ApiProcessBatch(c)
    \/ LoadCurrentTonies(c)
    \/ ProcessSelection(c)
    \/ SaveTonies(c)
    \/ TriggerConfigReload(c)


(***************************************************************************)
(* api/batch.py, analyze_batch: the handler in front of the service.       *)
(***************************************************************************)
\* The handler without its cap on the number of paths.
ApiAnalyzeBatchNoCap(c) ==
    /\ NextCall(c) /\ op[c] = "analyze"
    /\ \E paths \in PathLists :
        /\ slots' = slots - 1
        /\ an' = [an EXCEPT ![c].taf_paths = paths]
        /\ IF paths = <<>>
           THEN /\ resp' = [resp EXCEPT ![c] = Rejected("No TAF paths provided")]
                /\ pc' = [pc EXCEPT ![c] = "done"]
           ELSE /\ resp' = resp
                /\ pc' = [pc EXCEPT ![c] = "tonies"]
    /\ UNCHANGED <<fn, catalog, pics, now, op, pb, sm, io>>

ApiAnalyzeBatch(c) ==
    /\ NextCall(c) /\ op[c] = "analyze"
    /\ \E paths \in PathLists :
        /\ slots' = slots - 1
        /\ an' = [an EXCEPT ![c].taf_paths = paths]
        /\ IF paths = <<>>
           THEN /\ resp' = [resp EXCEPT ![c] = Rejected("No TAF paths provided")]
                /\ pc' = [pc EXCEPT ![c] = "done"]
           ELSE IF Len(paths) > MaxAnalyzeBatch
           THEN /\ resp' = [resp EXCEPT ![c] = Rejected("Maximum 100 files per batch")]
                /\ pc' = [pc EXCEPT ![c] = "done"]
           ELSE /\ resp' = resp
                /\ pc' = [pc EXCEPT ![c] = "tonies"]
    /\ UNCHANGED <<fn, catalog, pics, now, op, pb, sm, io>>

(***************************************************************************)
(* str.strip and the stem of a file name, on sequences of tokens.           *)
(***************************************************************************)
RECURSIVE StripLeft(_)
StripLeft(w) == IF w # <<>> /\ Head(w) = " " THEN StripLeft(Tail(w)) ELSE w

RECURSIVE StripRight(_)
StripRight(w) == IF w # <<>> /\ w[Len(w)] = " "
                 THEN StripRight(SubSeq(w, 1, Len(w) - 1)) ELSE w

\* str.strip
Strip(w) == StripRight(StripLeft(w))

RECURSIVE StemOf(_)
\* basename.replace('.taf', '').replace('_', ' ')
StemOf(name) ==
    IF name = <<>> THEN <<>>
    ELSE IF Head(name) = ".taf" THEN StemOf(Tail(name))
    ELSE IF Head(name) = "_" THEN <<" ">> \o StemOf(Tail(name))
    ELSE <<Head(name)>> \o StemOf(Tail(name))

(***************************************************************************)
(* TonieMatchingService: text.  A text whose characters matter is the      *)
(* sequence of its characters, each a string of length one.  A score       *)
(* between 0.0 and 1.0 is the number of its ten-thousandths.               *)
(***************************************************************************)
GERMAN_ARTICLES ==
    { <<"d", "i", "e">>, <<"d", "e", "r">>, <<"d", "a", "s">>, <<"d", "e", "n">>,
      <<"d", "e", "m">>, <<"d", "e", "s">>, <<"e", "i", "n">>, <<"e", "i", "n", "e">>,
      <<"e", "i", "n", "e", "r">>, <<"e", "i", "n", "e", "s">>,
      <<"e", "i", "n", "e", "m">>, <<"e", "i", "n", "e", "n">> }

ENGLISH_ARTICLES == { <<"t", "h", "e">>, <<"a">>, <<"a", "n">> }

LowerLetters ==
    { "a", "b", "c", "d", "e", "f", "g", "h", "i", "j", "k", "l", "m",
      "n", "o", "p", "q", "r", "s", "t", "u", "v", "w", "x", "y", "z" }

DigitChars == { "0", "1", "2", "3", "4", "5", "6", "7", "8", "9" }

\* str.lower, for the capitals that occur in the texts of the model
LowerOf(ch) ==
    CASE ch = "A" -> "a" [] ch = "D" -> "d" [] ch = "E" -> "e" [] ch = "F" -> "f"
      [] ch = "T" -> "t" [] ch = "W" -> "w" [] ch = "X" -> "x" [] OTHER -> ch

Lower(text) == [k \in 1..Len(text) |-> LowerOf(text[k])]

RECURSIVE ReplaceUmlauts(_)
\* lines 129-132
ReplaceUmlauts(text) ==
    IF text = <<>> THEN <<>>
    ELSE LET ch == Head(text)
             out == CASE ch = "ä" -> <<"a", "e">> [] ch = "ö" -> <<"o", "e">>
                      [] ch = "ü" -> <<"u", "e">> [] ch = "ß" -> <<"s", "s">>
                      [] OTHER -> <<ch>>
         IN  out \o ReplaceUmlauts(Tail(text))

RECURSIVE SplitWords(_, _, _)
\* str.split(): the words between runs of whitespace
SplitWords(text, word, words) ==
    LET closed == IF word = <<>> THEN words ELSE Append(words, word)
    IN  IF text = <<>> THEN closed
        ELSE IF Head(text) = " " THEN SplitWords(Tail(text), <<>>, closed)
        ELSE SplitWords(Tail(text), Append(word, Head(text)), words)

Split(text) == SplitWords(text, <<>>, <<>>)

RECURSIVE Join(_)
\* ' '.join(words)
Join(words) ==
    IF words = <<>> THEN <<>>
    ELSE IF Len(words) = 1 THEN words[1]
    ELSE words[1] \o <<" ">> \o Join(Tail(words))

\* re.sub(r'[^a-z0-9\s]', '', text)
RemoveSpecial(text) ==
    SelectSeq(text, LAMBDA ch : ch \in LowerLetters \cup DigitChars \cup {" "})

\* _normalize_text, lines 122-146
NormalizeText(text) ==
    IF text = <<>> THEN <<>>
    ELSE LET words == Split(ReplaceUmlauts(Strip(Lower(text))))
             rest == IF words # <<>> /\ words[1] \in GERMAN_ARTICLES \cup ENGLISH_ARTICLES
                     THEN Tail(words) ELSE words
         IN  Join(Split(RemoveSpecial(Join(rest))))

\* needle in hay
Contains(hay, needle) ==
    \E k \in 0..(Len(hay) - Len(needle)) : SubSeq(hay, k + 1, k + Len(needle)) = needle

Min(a, b) == IF a <= b THEN a ELSE b

One == 10000      \* the score 1.0

\* _calculate_series_similarity, lines 179-210.  fuzzy is the weighted
\* average of the four rapidfuzz ratios of the two normalized texts.
SeriesSimilarity(query, target, fuzzy) ==
    LET query_norm == NormalizeText(query)
        target_norm == NormalizeText(target)
    IN  IF query_norm = <<>> \/ target_norm = <<>> THEN 0
        ELSE IF query_norm = target_norm THEN One
        ELSE IF Contains(target_norm, query_norm) \/ Contains(query_norm, target_norm)
        THEN 8500 + (1000 * Min(Len(query_norm), Len(target_norm)))
                       \div Max(Len(query_norm), Len(target_norm))
        ELSE fuzzy

(***************************************************************************)
(* TonieMatchingService: episodes.  An absent text is NoneW or the empty   *)
(* text; an optional number is a sequence of length 0 or 1.                *)
(***************************************************************************)
Absent(text) == text = NoneW \/ text = <<>>

DigitValue(ch) ==
    CHOOSE n \in 0..9 : <<"0", "1", "2", "3", "4", "5", "6", "7", "8", "9">>[n + 1] = ch

RECURSIVE IntOf(_)
\* int(digits)
IntOf(digits) ==
    IF digits = <<>> THEN 0
    ELSE 10 * IntOf(SubSeq(digits, 1, Len(digits) - 1)) + DigitValue(digits[Len(digits)])

IsDigitAt(text, k) == k \in 1..Len(text) /\ text[k] \in DigitChars

RECURSIVE RunEnd(_, _)
\* the last character of the run of digits that begins at k
RunEnd(text, k) == IF IsDigitAt(text, k + 1) THEN RunEnd(text, k + 1) ELSE k

RECURSIVE RunStart(_, _)
\* the first character of the run of digits that ends at k
RunStart(text, k) == IF IsDigitAt(text, k - 1) THEN RunStart(text, k - 1) ELSE k

RECURSIVE SkipSpaces(_, _)
\* \s*
SkipSpaces(text, k) ==
    IF k \in 1..Len(text) /\ text[k] = " " THEN SkipSpaces(text, k + 1) ELSE k

StartsAt(text, k, word) ==
    k + Len(word) - 1 <= Len(text) /\ SubSeq(text, k, k + Len(word) - 1) = word

NumberAt(text, k) == IntOf(SubSeq(text, k, RunEnd(text, k)))

Least(S) == CHOOSE k \in S : \A j \in S : k <= j

\* re.search(word + r'\s*(\d+)', text): the starts of a match
WordMatches(text, word) ==
    { k \in 1..Len(text) :
        StartsAt(text, k, word) /\ IsDigitAt(text, SkipSpaces(text, k + Len(word))) }

\* re.search(r'(\d+)\.', text): the starts of a match
DotMatches(text) ==
    { k \in 1..Len(text) :
        /\ IsDigitAt(text, k)
        /\ RunEnd(text, k) + 1 <= Len(text) /\ text[RunEnd(text, k) + 1] = "." }

\* EPISODE_PATTERNS, lines 54-61, but for the last one
EPISODE_WORDS ==
    << <<"f", "o", "l", "g", "e">>, <<"e", "p", "i", "s", "o", "d", "e">>,
       <<"t", "e", "i", "l">>, <<"t", "r", "a", "c", "k">>, <<"#">> >>

RECURSIVE FirstPattern(_, _)
\* lines 155-161: the number of the first pattern that matches
FirstPattern(text, k) ==
    IF k > Len(EPISODE_WORDS)
    THEN IF DotMatches(text) = {} THEN <<>>
         ELSE <<NumberAt(text, Least(DotMatches(text)))>>
    ELSE LET starts == WordMatches(text, EPISODE_WORDS[k])
         IN  IF starts = {} THEN FirstPattern(text, k + 1)
             ELSE <<NumberAt(text, SkipSpaces(text, Least(starts) + Len(EPISODE_WORDS[k])))>>

\* _extract_episode_number, lines 150-172
ExtractEpisodeNumber(text) ==
    IF Absent(text) THEN <<>>
    ELSE LET text_lower == Lower(text)
             found == FirstPattern(text_lower, 1)
             n == Len(text_lower)
         IN  IF found # <<>> THEN found
             ELSE IF IsDigitAt(text_lower, 1) /\ RunEnd(text_lower, 1) < n
                     /\ text_lower[RunEnd(text_lower, 1) + 1] = " "
             THEN <<NumberAt(text_lower, 1)>>
             ELSE IF IsDigitAt(text_lower, n) /\ RunStart(text_lower, n) > 1
                     /\ text_lower[RunStart(text_lower, n) - 1] = " "
             THEN <<NumberAt(text_lower, RunStart(text_lower, n))>>
             ELSE <<>>

\* An episode similarity that compares the normalized texts before the
\* numbers.
EpisodeSimilarityTextFirst(query_ep, target_ep, fuzzy) ==
    LET query_num == ExtractEpisodeNumber(query_ep)
        target_num == ExtractEpisodeNumber(target_ep)
    IN  IF Absent(query_ep) /\ Absent(target_ep) THEN One
        ELSE IF Absent(query_ep) \/ Absent(target_ep) THEN One \div 2
        ELSE IF NormalizeText(query_ep) = NormalizeText(target_ep) THEN One
        ELSE IF query_num # <<>> /\ target_num # <<>> /\ query_num = target_num THEN One
        ELSE fuzzy

\* _calculate_episode_similarity, lines 217-241.  fuzzy is the
\* token_set_ratio of the two normalized texts.
EpisodeSimilarity(query_ep, target_ep, fuzzy) ==
    LET query_num == ExtractEpisodeNumber(query_ep)
        target_num == ExtractEpisodeNumber(target_ep)
    IN  IF Absent(query_ep) /\ Absent(target_ep) THEN One
        ELSE IF Absent(query_ep) \/ Absent(target_ep) THEN One \div 2
        ELSE IF query_num # <<>> /\ target_num # <<>>
        THEN IF query_num = target_num THEN One ELSE One \div 5
        ELSE IF NormalizeText(query_ep) = NormalizeText(target_ep) THEN One
        ELSE fuzzy

(***************************************************************************)
(* TonieMatchingService.match_single.  A confidence is kept as ten times   *)
(* its ten-thousandths, 6 * series_sim + 4 * episode_sim.                  *)
(***************************************************************************)
WeakMatchThreshold == 6000
AutoMatchThreshold == 9500

\* list.sort(key=..., reverse=True): descending by key, equal keys in
\* their former order
SortedDescending(seq, keys) ==
    LET rank(i) == 1 + Cardinality({ j \in 1..Len(seq) :
                        keys[j] > keys[i] \/ (keys[j] = keys[i] /\ j < i) })
    IN  [p \in 1..Len(seq) |-> seq[CHOOSE i \in 1..Len(seq) : rank(i) = p]]

Prefix(seq, n) == SubSeq(seq, 1, Min(Len(seq), n))

Confidence(series_sim, episode_sim) == 6 * series_sim + 4 * episode_sim

\* lines 301-309
MatchType(series_sim, episode_sim) ==
    IF Confidence(series_sim, episode_sim) >= 10 * 9500 THEN "exact"
    ELSE IF series_sim >= 9000 /\ episode_sim >= 8000 THEN "fuzzy_episode"
    ELSE IF series_sim >= 8000 THEN "fuzzy_series"
    ELSE "partial"

\* lines 313-324; idx counts from 0
Candidate(idx, tonie, series_sim, episode_sim) ==
    [tonie_index |-> idx, series |-> tonie.series, episodes |-> tonie.episodes,
     confidence |-> Confidence(series_sim, episode_sim),
     match_type |-> MatchType(series_sim, episode_sim)]

MatchResult(candidates) ==
    [candidates |-> candidates,
     best_match |-> IF candidates = <<>> THEN <<>> ELSE <<candidates[1]>>,
     auto_selected |-> candidates # <<>> /\ candidates[1].confidence >= 10 * AutoMatchThreshold]

\* lines 277-288: the entries whose series is similar enough, best first
SeriesScores(tonies_list, parsed_series, fuzzy) ==
    LET sim(k) == SeriesSimilarity(parsed_series, tonies_list[k].series, fuzzy.series)
        all == [k \in 1..Len(tonies_list) |-> [idx |-> k - 1, series_sim |-> sim(k)]]
        kept == SelectSeq(all, LAMBDA x :
                    tonies_list[x.idx + 1].series # <<>> /\ x.series_sim >= WeakMatchThreshold)
    IN  SortedDescending(kept, [k \in 1..Len(kept) |-> kept[k].series_sim])

\* lines 293-325: the entries of top with their confidence, in the order
\* of top
Scored(tonies_list, top, parsed_episode, fuzzy) ==
    [k \in 1..Len(top) |->
        Candidate(top[k].idx, tonies_list[top[k].idx + 1], top[k].series_sim,
                  EpisodeSimilarity(parsed_episode, tonies_list[top[k].idx + 1].episodes,
                                    fuzzy.episode))]

\* line 312
Candidates(scored) == SelectSeq(scored, LAMBDA x : x.confidence >= 10 * WeakMatchThreshold)

\* line 327
ByConfidence(candidates) ==
    SortedDescending(candidates, [k \in 1..Len(candidates) |-> candidates[k].confidence])

\* match_single without the sort of the candidates by confidence
MatchSingleUnsorted(tonies_list, parsed_series, parsed_episode, max_candidates, fuzzy) ==
    IF Absent(parsed_series) \/ tonies_list = <<>> THEN MatchResult(<<>>)
    ELSE MatchResult(Prefix(
             Candidates(Scored(tonies_list,
                               Prefix(SeriesScores(tonies_list, parsed_series, fuzzy),
                                      2 * max_candidates),
                               parsed_episode, fuzzy)),
             max_candidates))

\* match_single, lines 262-341.  fuzzy holds the scores rapidfuzz gives for
\* the series and for the episodes.
MatchSingle(tonies_list, parsed_series, parsed_episode, max_candidates, fuzzy) ==
    IF Absent(parsed_series) \/ tonies_list = <<>> THEN MatchResult(<<>>)
    ELSE MatchResult(Prefix(
             ByConfidence(Candidates(Scored(tonies_list,
                                            Prefix(SeriesScores(tonies_list, parsed_series, fuzzy),
                                                   2 * max_candidates),
                                            parsed_episode, fuzzy))),
             max_candidates))

(***************************************************************************)
(* FilenameParser.parse_filename.  A file name is the sequence of its      *)
(* tokens: a word, a run of digits, " ", "_", "-" and ".taf" are tokens.   *)
(***************************************************************************)
CategoryWords == { "Hoerspiel", "Hörspiel", "Audiobook", "Musik" }

EpisodeWords == { "Folge", "Teil", "Episode", "Track" }

DigitTokens == { "01", "02" }

\* str.lower, for the category words
LowerWord(word) ==
    CASE word = "Hoerspiel" -> "hoerspiel" [] word = "Hörspiel" -> "hörspiel"
      [] word = "Audiobook" -> "audiobook" [] word = "Musik" -> "musik"
      [] OTHER -> word

RECURSIVE SegmentsOf(_, _, _)
\* the parts of a name between its hyphens
SegmentsOf(name, part, parts) ==
    IF name = <<>> THEN Append(parts, part)
    ELSE IF Head(name) = "-" THEN SegmentsOf(Tail(name), <<>>, Append(parts, part))
    ELSE SegmentsOf(Tail(name), Append(part, Head(name)), parts)

Segments(name) == SegmentsOf(name, <<>>, <<>>)

RECURSIVE JoinHyphen(_)
JoinHyphen(parts) ==
    IF parts = <<>> THEN <<>>
    ELSE IF Len(parts) = 1 THEN parts[1]
    ELSE parts[1] \o <<"-">> \o JoinHyphen(Tail(parts))

\* the name behind its k-th hyphen
Behind(name, k) == JoinHyphen(SubSeq(Segments(name), k + 1, Len(Segments(name))))

\* pattern1, line 43, matches name
Pattern1Matches(name) ==
    LET segs == Segments(name)
        fourth == StripLeft(segs[4])
        numbered == StripLeft(Tail(fourth))
    IN  /\ Len(segs) >= 4
        /\ segs[1] # <<>> /\ segs[2] # <<>>
        /\ Len(Strip(segs[3])) = 1 /\ Strip(segs[3])[1] \in CategoryWords
        /\ fourth # <<>> /\ fourth[1] \in EpisodeWords
        /\ numbered # <<>> /\ numbered[1] \in DigitTokens
        /\ Len(segs) > 4 => Behind(name, 4) # <<>>

\* pattern2, line 58, matches name
Pattern2Matches(name) ==
    /\ Len(Segments(name)) >= 2
    /\ Segments(name)[1] # <<>>
    /\ Behind(name, 1) # <<>>

FolgeText(episode_num) == <<"Folge", " ", episode_num>>

ParseResult(series, episode, author, category, search_term) ==
    [series |-> series, episode |-> episode, author |-> author,
     category |-> category, search_term |-> search_term]

\* lines 45-54
Pattern1Result(name) ==
    LET segs == Segments(name)
        series == Strip(segs[2])
        episode == FolgeText(StripLeft(Tail(StripLeft(segs[4])))[1])
    IN  ParseResult(series, episode, Strip(segs[1]),
                    <<LowerWord(Strip(segs[3])[1])>>, series \o <<" ">> \o episode)

\* lines 60-79
Pattern2Result(name) ==
    LET series == Strip(Segments(name)[1])
        rest == Strip(Behind(name, 1))
        after == StripLeft(Tail(rest))
        episode_title == Strip(IF after # <<>> /\ after[1] = "-" THEN Tail(after) ELSE after)
    IN  IF rest # <<>> /\ rest[1] \in DigitTokens
        THEN ParseResult(series,
                         IF episode_title # <<>> THEN episode_title ELSE FolgeText(rest[1]),
                         NoneW, NoneW, series \o <<" ">> \o rest)
        ELSE ParseResult(series, rest, NoneW, NoneW, series \o <<" ">> \o rest)

\* lines 83-88
Pattern3Result(name) == ParseResult(Strip(name), FolgeText("1"), NoneW, NoneW, Strip(name))

\* A parser that tries the second pattern before the first
ParseFilenameSecondFirst(filename) ==
    LET name == StemOf(filename)
    IN  IF Pattern2Matches(name) THEN Pattern2Result(name)
        ELSE IF Pattern1Matches(name) THEN Pattern1Result(name)
        ELSE Pattern3Result(name)

\* parse_filename, lines 26-88
ParseFilename(filename) ==
    LET name == StemOf(filename)
    IN  IF Pattern1Matches(name) THEN Pattern1Result(name)
        ELSE IF Pattern2Matches(name) THEN Pattern2Result(name)
        ELSE Pattern3Result(name)

(***************************************************************************)
(* TonieMatchingService: the cache of tonies.json.                         *)
(***************************************************************************)
CacheTtl == 5

\* A cache that still counts as valid when exactly the TTL has passed.
IsCacheValidInclusive(m, t) == m.last_load # NoTime /\ t - m.last_load <= CacheTtl

IsCacheValid(m, t) == m.last_load # NoTime /\ t - m.last_load < CacheTtl

RECURSIVE BuildIndex(_, _, _)
\* _build_index, lines 98-110: the dict from a normalized series to the
\* positions (from 0) of the entries that carry it, entry idx + 1 onwards
BuildIndex(tonies_list, idx, series_index) ==
    IF idx >= Len(tonies_list) THEN series_index
    ELSE LET series == Chars(tonies_list[idx + 1].series)
             normalized == NormalizeText(series)
             sofar == IF DictHas(series_index, normalized)
                      THEN DictGet(series_index, normalized) ELSE <<>>
         IN  BuildIndex(tonies_list, idx + 1,
                 IF series = <<>> THEN series_index
                 ELSE DictSet(series_index, normalized, Append(sofar, idx)))

\* A load that replaces the list and leaves the index as it was.
LoadToniesStaleIndex(m, tonies_data, t) ==
    [m EXCEPT !.tonies_list = tonies_data, !.last_load = t]

\* load_tonies, lines 80-90
LoadTonies(m, tonies_data, t) ==
    [m EXCEPT !.tonies_list = tonies_data,
              !.series_index = BuildIndex(tonies_data, 0, <<>>),
              !.last_load = t]

(***************************************************************************)
(* _get_taf_headers, lines 191-199 and 232: the paths grouped by           *)
(* directory, one fetch_directory task per directory.                      *)
(***************************************************************************)
RECURSIVE GroupByDirectory(_, _)
GroupByDirectory(paths, by_directory) ==
    IF paths = <<>> THEN by_directory
    ELSE LET path == Head(paths)
             sofar == IF DictHas(by_directory, path.dir)
                      THEN DictGet(by_directory, path.dir) ELSE <<>>
         IN  GroupByDirectory(Tail(paths),
                 DictSet(by_directory, path.dir, Append(sofar, path)))

\* An analysis that fetches tonies.json whether or not the cache is valid.
StartAnalysisAlwaysFetches(c) ==
    /\ op[c] = "analyze" /\ pc[c] = "tonies"
    /\ LET groups == GroupByDirectory(an[c].taf_paths, <<>>)
           fetches == [k \in 1..Len(groups) |-> "get_file_index"]
           begun(m) == [m EXCEPT !.by_directory = groups,
                                 !.pending = Range(DictKeys(groups))]
       IN  /\ io' = [io EXCEPT ![c] = @ \o <<"get_tonies_json">> \o fetches]
           /\ \/ an' = [an EXCEPT ![c] = begun(LoadTonies(@, OfficialTonies, now))]
              \/ an' = [an EXCEPT ![c] = begun(@)]
    /\ pc' = [pc EXCEPT ![c] = "headers"]
    /\ UNCHANGED <<fn, catalog, pics, now, slots, op, pb, sm, resp>>

\* analyze_batch, lines 64-75, up to the point where every fetch_directory
\* task waits for its listing
StartAnalysis(c) ==
    /\ op[c] = "analyze" /\ pc[c] = "tonies"
    /\ LET groups == GroupByDirectory(an[c].taf_paths, <<>>)
           fetches == [k \in 1..Len(groups) |-> "get_file_index"]
           begun(m) == [m EXCEPT !.by_directory = groups,
                                 !.pending = Range(DictKeys(groups))]
       IN  IF IsCacheValid(an[c], now)
           THEN /\ an' = [an EXCEPT ![c] = begun(@)]
                /\ io' = [io EXCEPT ![c] = @ \o fetches]
           ELSE /\ io' = [io EXCEPT ![c] = @ \o <<"get_tonies_json">> \o fetches]
                /\ \/ \* tonies.json arrives and is loaded
                      an' = [an EXCEPT ![c] = begun(LoadTonies(@, OfficialTonies, now))]
                   \/ \* the fetch raises: the service goes on with what it has
                      an' = [an EXCEPT ![c] = begun(@)]
    /\ pc' = [pc EXCEPT ![c] = "headers"]
    /\ UNCHANGED <<fn, catalog, pics, now, slots, op, pb, sm, resp>>

(***************************************************************************)
(* _get_taf_headers.fetch_directory, lines 202-229, after its await.       *)
(***************************************************************************)
EmptyInfo == [audio_id |-> NoneT, hash |-> NoneT]

\* file_lookup[name]: the last file of the listing with that name
FileLookup(files, name) ==
    LET hits == { k \in 1..Len(files) : files[k].name = name }
    IN  IF hits = {} THEN <<>>
        ELSE <<files[CHOOSE k \in hits : \A j \in hits : j <= k]>>

HeaderInfo(files, path) ==
    LET hit == FileLookup(files, path.name)
    IN  IF hit = <<>> THEN EmptyInfo
        ELSE IF hit[1].tafHeader = <<>> THEN EmptyInfo
        ELSE [audio_id |-> hit[1].tafHeader[1].audioId,
              hash |-> hit[1].tafHeader[1].sha1Hash]

RECURSIVE FetchSucceeded(_, _, _)
\* lines 214-225: headers after the paths of the directory are matched
FetchSucceeded(headers, files, paths) ==
    IF paths = <<>> THEN headers
    ELSE FetchSucceeded(DictSet(headers, Head(paths), HeaderInfo(files, Head(paths))),
                        files, Tail(paths))

\* A failure that also blanks what the sibling fetches have stored.
FetchFailedBlanksAll(headers, paths) ==
    LET blank == [k \in 1..Len(headers) |-> <<headers[k][1], EmptyInfo>>]
        missing == SelectSeq(paths, LAMBDA p : ~DictHas(blank, p))
    IN  blank \o [k \in 1..Len(missing) |-> <<missing[k], EmptyInfo>>]

RECURSIVE FetchFailed(_, _)
\* lines 226-229: headers after the listing of the directory failed
FetchFailed(headers, paths) ==
    IF paths = <<>> THEN headers
    ELSE FetchFailed(DictSet(headers, Head(paths), EmptyInfo), Tail(paths))

(***************************************************************************)
(* analyze_batch, lines 77-179: one result per entry of taf_info, in the   *)
(* order of the dict.                                                      *)
(***************************************************************************)
\* lines 78-90: one file to match per entry of taf_info
FileToMatch(path, info) ==
    LET parsed == ParseFilename(NameTokens(path.name))
    IN  [path |-> path,
         parsed_series |-> Spelled(parsed.series),
         parsed_episode |-> Spelled(parsed.episode),
         audio_id |-> info.audio_id, hash |-> info.hash]

\* The entries of tonies.json as match_single reads them
Snapshot(tonies_list) ==
    [k \in 1..Len(tonies_list) |->
        [series |-> Chars(tonies_list[k].series), episodes |-> Chars(tonies_list[k].episodes)]]

\* rapidfuzz scores two texts that have no character in common with 0 in
\* every ratio.  A name of PathSet and a series of OfficialTonies are equal
\* after normalization or have no character in common.
NothingInCommon == [series |-> 0, episode |-> 0]

MaxCandidatesPerFile == 5

RECURSIVE MatchBatch(_, _, _)
\* match_batch, lines 343-374: the dict from a path to its match result
MatchBatch(tonies_list, files, results) ==
    IF files = <<>> THEN results
    ELSE MatchBatch(tonies_list, Tail(files),
             DictSet(results, Head(files).path,
                     MatchSingle(Snapshot(tonies_list), Head(files).parsed_series,
                                 Head(files).parsed_episode, MaxCandidatesPerFile,
                                 NothingInCommon)))

\* lines 138-148
AnalyzeResult(file_info, match_result) ==
    [taf_path |-> file_info.path, taf_name |-> file_info.path.name,
     audio_id |-> file_info.audio_id, hash |-> file_info.hash,
     parsed_series |-> file_info.parsed_series,
     parsed_episode |-> file_info.parsed_episode,
     candidates |-> match_result.candidates,
     best_match |-> match_result.best_match,
     auto_selected |-> match_result.auto_selected]

\* A tally in which a result with candidates that is not auto-selected
\* counts as unmatched.
TallyNoReview(result) ==
    IF result.auto_selected THEN "auto_matched" ELSE "unmatched"

\* lines 150-155: the counter a result adds one to
Tally(result) ==
    IF result.auto_selected THEN "auto_matched"
    ELSE IF Len(result.candidates) > 0 THEN "needs_review"
    ELSE "unmatched"

Tallied(results, counter) ==
    Cardinality({ k \in 1..Len(results) : Tally(results[k]) = counter })

\* m: the locals and the matching service of the call
AnalyzeResponse(m) ==
    LET files_to_match == [k \in 1..Len(m.headers) |->
                              FileToMatch(m.headers[k][1], m.headers[k][2])]
        match_results == MatchBatch(m.tonies_list, files_to_match, <<>>)
        results == [k \in 1..Len(files_to_match) |->
                       AnalyzeResult(files_to_match[k],
                                     DictGet(match_results, files_to_match[k].path))]
    IN  [kind |-> "analyze",
         results |-> results,
         total |-> Len(results),
         auto_matched |-> Tallied(results, "auto_matched"),
         needs_review |-> Tallied(results, "needs_review"),
         unmatched |-> Tallied(results, "unmatched")]

\* After a fetch_directory task has ended: gather returns with the last one.
AfterFetch(c, m) ==
    IF m.pending # {}
    THEN pc' = pc /\ resp' = resp
    ELSE pc' = [pc EXCEPT ![c] = "done"]
         /\ resp' = [resp EXCEPT ![c] = AnalyzeResponse(m)]

FetchDirectory(c) ==
    /\ op[c] = "analyze" /\ pc[c] = "headers"
    /\ \E d \in an[c].pending :
        LET paths == DictGet(an[c].by_directory, d)
        IN  \/ \* the listing arrives
               an' = [an EXCEPT ![c].headers = FetchSucceeded(@, Listing(d), paths),
                                ![c].fetched = DictSet(@, d, [ok |-> TRUE, files |-> Listing(d)]),
                                ![c].pending = @ \ {d}]
            \/ \* get_file_index raises
               an' = [an EXCEPT ![c].headers = FetchFailed(@, paths),
                                ![c].fetched = DictSet(@, d, [ok |-> FALSE, files |-> <<>>]),
                                ![c].pending = @ \ {d}]
    /\ AfterFetch(c, an'[c])
    /\ UNCHANGED <<fn, catalog, pics, now, slots, op, pb, sm, io>>

AnalyzeNext == \E c \in Calls :
    \/ ApiAnalyzeBatch(c)
    \/ StartAnalysis(c)
    \/ FetchDirectory(c)

(***************************************************************************)
(* api/batch.py, search_metadata_batch: the handler in front of the        *)
(* service.                                                                *)
(***************************************************************************)
SearchResponse(m) ==
    [kind |-> "search", results |-> m.results, searched |-> Len(m.items),
     found |-> m.found_count]

ApiSearchMetadata(c) ==
    /\ NextCall(c) /\ op[c] = "search"
    /\ \E items \in ItemLists :
        /\ slots' = slots - 1
        /\ sm' = [sm EXCEPT ![c].items = items]
        /\ IF items = <<>>
           THEN /\ resp' = [resp EXCEPT ![c] =
                      [kind |-> "search", results |-> <<>>, searched |-> 0, found |-> 0]]
                /\ pc' = [pc EXCEPT ![c] = "done"]
           ELSE IF Len(items) > MaxSearchBatch
           THEN /\ resp' = [resp EXCEPT ![c] = Rejected("Maximum 50 items per search")]
                /\ pc' = [pc EXCEPT ![c] = "done"]
           ELSE /\ resp' = resp
                /\ pc' = [pc EXCEPT ![c] = "search"]
    /\ UNCHANGED <<fn, catalog, pics, now, op, pb, an, io>>

(***************************************************************************)
(* search_metadata_batch, lines 253-292: one pass of the loop over the     *)
(* items.                                                                  *)
(***************************************************************************)
\* f"{v}"
Fmt(v) == IF v = NoneW THEN <<"None">> ELSE v

\* lines 260-262
SearchTerm(item) ==
    LET term == Strip(Fmt(item.series) \o <<" ">> \o Fmt(item.episode))
    IN  IF term = <<>> THEN StemOf(item.taf_path.name) ELSE term

SearchHit(item, covers) ==
    [taf_path |-> item.taf_path, covers |-> covers,
     best_cover |-> IF covers = <<>> THEN <<>> ELSE <<covers[1]>>,
     confidence_pct |-> IF covers = <<>> THEN 0 ELSE covers[1].score]

SearchMiss(item) ==
    [taf_path |-> item.taf_path, covers |-> <<>>, best_cover |-> <<>>,
     confidence_pct |-> 0]

AfterSearch(c, m) ==
    IF m.i <= Len(m.items)
    THEN pc' = pc /\ resp' = resp
    ELSE pc' = [pc EXCEPT ![c] = "done"]
         /\ resp' = [resp EXCEPT ![c] = SearchResponse(m)]

SearchOne(c) ==
    /\ op[c] = "search" /\ pc[c] = "search"
    /\ LET item == sm[c].items[sm[c].i]
           asked(m, answer) == [m EXCEPT !.terms = Append(@, SearchTerm(item)),
                                         !.answers = Append(@, answer)]
       IN  /\ io' = [io EXCEPT ![c] = Append(@, "search_covers")]
           /\ \/ \* the search returns its covers
                 \E covers \in CoverLists :
                    sm' = [sm EXCEPT ![c] = [asked(@, <<covers>>) EXCEPT
                              !.results = DictSet(@, item.taf_path, SearchHit(item, covers)),
                              !.found_count = IF covers # <<>> THEN @ + 1 ELSE @,
                              !.i = @ + 1]]
              \/ \* the search raises
                 sm' = [sm EXCEPT ![c] = [asked(@, <<>>) EXCEPT
                           !.results = DictSet(@, item.taf_path, SearchMiss(item)),
                           !.i = @ + 1]]
    /\ AfterSearch(c, sm'[c])
    /\ UNCHANGED <<fn, catalog, pics, now, slots, op, pb, an>>

SearchNext == \E c \in Calls :
    \/ ApiSearchMetadata(c)
    \/ SearchOne(c)

(***************************************************************************)
(* The service handles one request.                                        *)
(***************************************************************************)
Next == ProcessNext \/ AnalyzeNext \/ SearchNext

Spec == Init /\ [][Next]_vars

(***************************************************************************)
(* Two clients post to /batch/process; the event loop runs the two         *)
(* handlers as tasks that take turns at their awaits.                      *)
(***************************************************************************)
PairInit ==
    /\ InitWith(2)
    /\ \A c \in Calls : op[c] = "process"
    /\ Len(catalog) <= MaxPairCat

PairNext == \E c \in Calls :
    \/ ApiProcessBatch(c) /\ Len(pb'[c].selections) <= MaxPairSel
    \/ LoadCurrentTonies(c)
    \/ ProcessSelection(c)
    \/ SaveTonies(c)
    \/ TriggerConfigReload(c)

SpecPair == PairInit /\ [][PairNext]_vars

(***************************************************************************)
(* One client posts a request and, once it has the response, posts the     *)
(* same request again.                                                     *)
(***************************************************************************)
TwiceInit == InitWith(2) /\ op[1] = op[2]

\* The collaborators have answered the second request, as far as it has
\* come, the way they answered the first: the catalog load, the model-number
\* lookup, the downloads, the write and the reload signal of process_batch,
\* tonies.json and the directory listings of analyze_batch in the order they
\* arrived, and the searches of search_metadata_batch.
SameAnswers ==
    /\ pc[2] \notin {"idle", "load"} =>
          (pb[2].lookup = pb[1].lookup /\ pb[2].file.st = pb[1].file.st)
    /\ \A k \in 1..Len(pb[2].results) :
          k <= Len(pb[1].results) /\ pb[2].results[k].cover_path = pb[1].results[k].cover_path
    /\ pc[2] \in {"reload", "done"} => ((pb[2].saved = <<>>) <=> (pb[1].saved = <<>>))
    /\ pc[2] = "done" => pb[2].reload = pb[1].reload
    /\ pc[2] \notin {"idle", "tonies"} =>
          ((an[2].last_load = NoTime) <=> (an[1].last_load = NoTime))
    /\ Len(an[2].fetched) <= Len(an[1].fetched)
    /\ an[2].fetched = SubSeq(an[1].fetched, 1, Len(an[2].fetched))
    /\ Len(sm[2].answers) <= Len(sm[1].answers)
    /\ sm[2].answers = SubSeq(sm[1].answers, 1, Len(sm[2].answers))

\* The second request arrives after the first has been answered, carries
\* the input of the first and meets the answers of the first.
Again ==
    /\ (pc[2] = "idle" /\ pc'[2] # "idle") =>
          /\ pc[1] = "done"
          /\ pb'[2].selections = pb[1].selections
          /\ an'[2].taf_paths = an[1].taf_paths
          /\ sm'[2].items = sm[1].items
    /\ SameAnswers'

TwiceNext ==
    \/ ProcessNext /\ Again
    \/ AnalyzeNext /\ Again
    \/ SearchNext /\ Again

SpecTwice == TwiceInit /\ [][TwiceNext]_vars

(***************************************************************************)
(* One TonieMatchingService that lives on while the clock advances and     *)
(* its owner loads it: the service of request 1, no request arriving.      *)
(***************************************************************************)
\* What load_tonies may be handed
TonieLists == { <<>>, OfficialTonies }

\* datetime.now() has moved on by a minute
Tick ==
    /\ now < MaxNow
    /\ now' = now + 1
    /\ UNCHANGED <<fn, catalog, pics, slots, op, pc, pb, an, sm, io, resp>>

CacheLoad ==
    /\ \E tonies_data \in TonieLists :
          an' = [an EXCEPT ![1] = LoadTonies(@, tonies_data, now)]
    /\ UNCHANGED <<fn, catalog, pics, now, slots, op, pc, pb, sm, io, resp>>

CacheNext == Tick \/ CacheLoad

CacheInit == InitWith(0)

SpecCache == CacheInit /\ [][CacheNext]_vars

(***************************************************************************)
(* Two analyses overlap: both requests go to the analyze route, each with  *)
(* files of directory "a", and their steps interleave freely.              *)
(***************************************************************************)
BothInit == InitWith(2) /\ \A c \in Calls : op[c] = "analyze"

BothNext == \E c \in Calls :
    \/ /\ ApiAnalyzeBatch(c)
       /\ Len(an'[c].taf_paths) <= MaxBothPaths
       /\ \A k \in 1..Len(an'[c].taf_paths) : an'[c].taf_paths[k].dir = "a"
    \/ StartAnalysis(c)
    \/ FetchDirectory(c)

SpecBoth == BothInit /\ [][BothNext]_vars

(***************************************************************************)
(* One BatchProcessingService that lives on: its owner loads the matching  *)
(* service while the clock advances, and then calls analyze_batch on it.   *)
(* get_batch_service of api/batch.py builds a service for every request,   *)
(* so a request always starts from a matching service without a load.      *)
(***************************************************************************)
OwnInit == InitWith(1) /\ op[1] = "analyze"

OwnNext ==
    \/ Tick
    \/ CacheLoad /\ pc[1] = "idle"
    \/ ApiAnalyzeBatch(1) /\ Len(an'[1].taf_paths) <= MaxOwnPaths
    \/ StartAnalysis(1)
    \/ FetchDirectory(1)

SpecOwn == OwnInit /\ [][OwnNext]_vars

(***************************************************************************)
(* match_single is called on its own with a loaded catalog.                *)
(***************************************************************************)
Tonie(series, episodes) == [series |-> series, episodes |-> episodes]

Folge1 == <<"F", "o", "l", "g", "e", " ", "1">>
Folge2 == <<"F", "o", "l", "g", "e", " ", "2">>

TonieSet ==
    { Tonie(<<"X">>, Folge2), Tonie(<<"x", " ", "n">>, Folge1),
      Tonie(<<"n">>, NoneW), Tonie(<<>>, Folge1) }

TonieCatalogs == SeqsUpTo(TonieSet, MaxTonies)

\* The weighted rapidfuzz score of two texts of which neither contains
\* the other.
FuzzyScores == { 3000, 5500, 7000 }

MatchInputs ==
    [tonies : TonieCatalogs, series : { NoneW, <<"x">> },
     episode : { NoneW, Folge1, Folge2, <<"n", "n">> }, max : { 1, 2 },
     fuzzy : [series : FuzzyScores, episode : FuzzyScores \ {5500}]]

MatchInit == Quiet(0) /\ fn \in { [f |-> "match_single", in |-> x] : x \in MatchInputs }

MatchSingleCall ==
    /\ fn.f = "match_single"
    /\ fn' = [f |-> "matched", in |-> fn.in,
              out |-> MatchSingle(fn.in.tonies, fn.in.series, fn.in.episode,
                                  fn.in.max, fn.in.fuzzy)]
    /\ UNCHANGED <<catalog, pics, now, slots, op, pc, pb, an, sm, io, resp>>

MatchNext == MatchSingleCall

SpecMatch == MatchInit /\ [][MatchNext]_vars

(***************************************************************************)
(* _calculate_episode_similarity is called on two episode descriptions.    *)
(* Each description comes with the number the patterns of                  *)
(* _extract_episode_number find in it when read by hand, or none.          *)
(***************************************************************************)
Described(text, number) == [text |-> text, number |-> number]

Episodes ==
    { Described(<<"<None>">>, <<>>),
      Described(<<>>, <<>>),
      Described(<<"F", "o", "l", "g", "e", " ", "3">>, <<3>>),
      Described(<<"E", "p", "i", "s", "o", "d", "e", " ", "3">>, <<3>>),
      Described(<<"F", "o", "l", "g", "e", " ", "4">>, <<4>>),
      Described(<<"T", "e", "i", "l", "0", "3">>, <<3>>),
      Described(<<"4", ".">>, <<4>>),
      Described(<<"3", " ", "x">>, <<3>>),
      Described(<<"x", " ", "1", "4">>, <<14>>),
      Described(<<"x", "3">>, <<>>),
      Described(<<"x">>, <<>>) }

EpisodeInit ==
    /\ Quiet(0)
    /\ fn \in { [f |-> "episodes", query |-> q, target |-> t, fuzzy |-> s] :
                  q \in Episodes, t \in Episodes, s \in FuzzyScores }

EpisodeSimilarityCall ==
    /\ fn.f = "episodes"
    /\ fn' = [f |-> "episode_similarity", query |-> fn.query, target |-> fn.target,
              fuzzy |-> fn.fuzzy,
              sim |-> EpisodeSimilarity(fn.query.text, fn.target.text, fn.fuzzy)]
    /\ UNCHANGED <<catalog, pics, now, slots, op, pc, pb, an, sm, io, resp>>

EpisodeNext == EpisodeSimilarityCall

SpecEpisode == EpisodeInit /\ [][EpisodeNext]_vars

(***************************************************************************)
(* A text is normalized and the result is compared with itself.            *)
(***************************************************************************)
TextChars == { "a", "n", "x", " ", "A", "!", "ä" }

Texts == SeqsUpTo(TextChars, MaxText)

SimInit == Quiet(0) /\ fn \in { [f |-> "text", text |-> t] : t \in Texts }

NormalizeCall ==
    /\ fn.f = "text"
    /\ fn' = [f |-> "normalized", text |-> fn.text, x |-> NormalizeText(fn.text)]
    /\ UNCHANGED <<catalog, pics, now, slots, op, pc, pb, an, sm, io, resp>>

\* the four ratios of a text with itself are 100
SimilarityCall ==
    /\ fn.f = "normalized"
    /\ fn' = [f |-> "similarity", text |-> fn.text, x |-> fn.x,
              sim |-> SeriesSimilarity(fn.x, fn.x, One)]
    /\ UNCHANGED <<catalog, pics, now, slots, op, pc, pb, an, sm, io, resp>>

SimNext == NormalizeCall \/ SimilarityCall

SpecSim == SimInit /\ [][SimNext]_vars

(***************************************************************************)
(* TAFParser.  A file is the record of its size, of the header fields at   *)
(* their offsets (each the sequence of its bytes) and of what lies behind  *)
(* the header.  An unsigned 32-bit value is the record of its two 16-bit   *)
(* halves, hi and lo.                                                      *)
(***************************************************************************)
HEADER_SIZE == 4096
TrackLimit == 500
QualityLimit == 100
QualityDivisor == 1000
Half == 65536

U32(hi, lo) == [hi |-> hi, lo |-> lo]

\* struct.pack('<I', n)
PackLE(n) == <<n.lo % 256, n.lo \div 256, n.hi % 256, n.hi \div 256>>

\* struct.unpack('<I', bytes)[0]
UnpackLE(bytes) == U32(bytes[3] + 256 * bytes[4], bytes[1] + 256 * bytes[2])

\* n > k and n <= k for a small k
Above(n, k) == n.hi > 0 \/ n.lo > k

\* n // d for a small d, by long division over the halves
Quotient(n, d) == (n.hi \div d) * Half + ((n.hi % d) * Half + n.lo) \div d

HexDigit(n) ==
    <<"0", "1", "2", "3", "4", "5", "6", "7", "8", "9", "a", "b", "c", "d", "e", "f">>[n + 1]

RECURSIVE Hex(_)
\* bytes.hex()
Hex(bytes) ==
    IF bytes = <<>> THEN <<>>
    ELSE <<HexDigit(Head(bytes) \div 16), HexDigit(Head(bytes) % 16)>> \o Hex(Tail(bytes))

\* _fallback_parse, lines 158-162, without its search for an identifier
FallbackParse(file) == [fallback |-> TRUE, size |-> file.size, tracks |-> 1, confidence |-> 0]

\* A header decoded from the low halves of its fields alone
ParseHeaderLowHalf(file, read) ==
    IF read < 36 THEN FallbackParse(file)
    ELSE LET track_count == UnpackLE(file.tracks).lo
             confidence == UnpackLE(file.quality).lo
         IN  [fallback |-> FALSE,
              audio_id |-> UnpackLE(file.audio),
              hash |-> Hex(file.hash),
              tracks |-> IF 0 < track_count /\ track_count <= TrackLimit
                         THEN track_count ELSE 0,
              confidence |-> IF confidence > QualityLimit
                             THEN Min(confidence \div QualityDivisor, QualityLimit)
                             ELSE confidence,
              size |-> file.size]

\* _parse_header, lines 110-149: unpack raises struct.error on a slice
\* shorter than four bytes
ParseHeader(file, read) ==
    IF read < 36 THEN FallbackParse(file)
    ELSE LET track_count == UnpackLE(file.tracks)
             confidence == UnpackLE(file.quality)
         IN  [fallback |-> FALSE,
              audio_id |-> UnpackLE(file.audio),
              hash |-> Hex(file.hash),
              tracks |-> IF Above(track_count, 0) /\ ~Above(track_count, TrackLimit)
                         THEN track_count.lo ELSE 0,
              confidence |-> IF Above(confidence, QualityLimit)
                             THEN Min(Quotient(confidence, QualityDivisor), QualityLimit)
                             ELSE confidence.lo,
              size |-> file.size]

\* _extract_cover, lines 208-257: the image found behind the header, if
\* any.  jpeg and png say what the search for each marker finds: "none",
\* "open" (a start without an end), "invalid" (Image.open or verify
\* raises) or "valid".
ExtractCover(rest) ==
    IF rest.read = "raises" THEN <<>>
    ELSE IF rest.jpeg = "valid" THEN <<"jpeg_data">>
    ELSE IF rest.png = "valid" THEN <<"png_data">>
    ELSE <<>>

\* A parse that lets a failed read behind the header escape
ParseCoverEscapes(file) ==
    LET read == Min(file.size, HEADER_SIZE)
    IN  IF read < HEADER_SIZE
        THEN [ok |-> FALSE, error |-> "Invalid TAF file: header too small"]
        ELSE IF file.rest.read = "raises"
        THEN [ok |-> FALSE, error |-> "read failed"]
        ELSE [ok |-> TRUE, metadata |-> ParseHeader(file, read),
              cover_image |-> ExtractCover(file.rest)]

\* A parse without the check of the length of what was read
ParseUnchecked(file) ==
    LET read == Min(file.size, HEADER_SIZE)
    IN  [ok |-> TRUE, metadata |-> ParseHeader(file, read),
         cover_image |-> ExtractCover(file.rest)]

\* parse, lines 61-92
Parse(file) ==
    LET read == Min(file.size, HEADER_SIZE)
    IN  IF read < HEADER_SIZE
        THEN [ok |-> FALSE, error |-> "Invalid TAF file: header too small"]
        ELSE [ok |-> TRUE, metadata |-> ParseHeader(file, read),
              cover_image |-> ExtractCover(file.rest)]

(***************************************************************************)
(* parse is called on a file.                                              *)
(***************************************************************************)
Around(n) == { n - 1, n, n + 1 }

FileSizes == { 0, 35 } \cup Around(HEADER_SIZE)

\* Raw values about the limits, and values beyond 16 and 31 bits
Beyond == { U32(1, 1), U32(Half \div 2, 0), U32(Half - 1, Half - 1) }

TrackRaws == { U32(0, n) : n \in { 0, 1 } \cup Around(TrackLimit) } \cup Beyond

QualityRaws ==
    { U32(0, n) : n \in { 0 } \cup Around(QualityLimit) \cup Around(QualityDivisor) }
        \cup { U32(n \div Half, n % Half) : n \in Around(QualityLimit * QualityDivisor) }
        \cup Beyond

Marker == { "none", "open", "invalid", "valid" }

Rests == [read : { "ok", "raises" }, jpeg : Marker, png : { "none", "invalid", "valid" }]

Files ==
    [size : FileSizes, audio : { PackLE(U32(0, 0)), PackLE(U32(Half - 1, Half - 1)) },
     hash : { [k \in 1..20 |-> 171] },
     tracks : { PackLE(n) : n \in TrackRaws },
     quality : { PackLE(n) : n \in QualityRaws }, rest : Rests]

TafInit == Quiet(0) /\ fn \in { [f |-> "parse", in |-> file] : file \in Files }

ParseCall ==
    /\ fn.f = "parse"
    /\ fn' = [f |-> "parsed", in |-> fn.in, out |-> Parse(fn.in)]
    /\ UNCHANGED <<catalog, pics, now, slots, op, pc, pb, an, sm, io, resp>>

TafNext == ParseCall

SpecTaf == TafInit /\ [][TafNext]_vars

(***************************************************************************)
(* parse_filename is called on a file name.                                *)
(***************************************************************************)
NameParts ==
    { <<>>, <<"Ann", "_">>, <<"_", "Hoerspiel", "_">>,
      <<"_", "Folge", "_", "01", "_">>, <<"_", "01", "_", "Title">>, <<"_", "02">> }

ExampleName ==
    <<"Margit", "_", "Auer", "_", "-", "_", "Die", "_", "Schule", "_", "der", "_",
      "magischen", "_", "Tiere", "_", "-", "_", "Hoerspiel", "_", "-", "_", "Folge",
      "_", "01", "_", "-", "_", "Title", ".taf">>

FileNames ==
    { JoinHyphen(parts) \o <<".taf">> : parts \in SeqsUpTo(NameParts, MaxSegments) \ {<<>>} }
        \cup { ExampleName }

NameInit == Quiet(0) /\ fn \in { [f |-> "parse_filename", in |-> name] : name \in FileNames }

ParseFilenameCall ==
    /\ fn.f = "parse_filename"
    /\ fn' = [f |-> "filename_parsed", in |-> fn.in, out |-> ParseFilename(fn.in)]
    /\ UNCHANGED <<catalog, pics, now, slots, op, pc, pb, an, sm, io, resp>>

NameNext == ParseFilenameCall

SpecName == NameInit /\ [][NameNext]_vars

(***************************************************************************)
(* extract_search_terms, lines 90-123.  A query is a token sequence like   *)
(* the texts it is formatted from; a text is true in a condition iff it is *)
(* neither None nor empty.                                                 *)
(***************************************************************************)
Present(text) == text # NoneW /\ text # <<>>

\* lines 110-112
PrimaryTerms(parsed) ==
    IF Present(parsed.series) /\ Present(parsed.episode)
    THEN << parsed.series \o <<" ">> \o parsed.episode \o <<" ", "hörbuch", " ", "cover">>,
            parsed.series \o <<" ">> \o parsed.episode \o <<" ", "audiobook", " ", "cover">> >>
    ELSE <<>>

\* lines 115-118
SecondaryTerms(parsed) ==
    IF Present(parsed.series)
    THEN << parsed.series \o <<" ", "hörbuch", " ", "cover">>,
            parsed.series \o <<" ", "audiobook", " ", "cover">>,
            parsed.series \o <<" ", "book", " ", "cover">> >>
    ELSE <<>>

\* lines 121-122
TertiaryTerms(parsed) ==
    IF Present(parsed.author) /\ Present(parsed.series)
    THEN << parsed.author \o <<" ">> \o parsed.series \o <<" ", "cover">> >>
    ELSE <<>>

\* lines 125-126
FallbackTerms(parsed) ==
    IF Present(parsed.search_term)
    THEN << parsed.search_term \o <<" ", "cover">> >>
    ELSE <<>>

ExtractSearchTerms(filename, parsed) ==
    PrimaryTerms(parsed) \o SecondaryTerms(parsed) \o TertiaryTerms(parsed)
        \o FallbackTerms(parsed)

(***************************************************************************)
(* taf_metadata.py, lines 141 and 177: the parsed structure handed to      *)
(* extract_search_terms is the one parse_filename returned for the name.   *)
(***************************************************************************)
ExtractSearchTermsCall ==
    /\ fn.f = "filename_parsed"
    /\ fn' = [f |-> "search_terms", in |-> fn.in, parsed |-> fn.out,
              terms |-> ExtractSearchTerms(fn.in, fn.out)]
    /\ UNCHANGED <<catalog, pics, now, slots, op, pc, pb, an, sm, io, resp>>

TermsNext == ParseFilenameCall \/ ExtractSearchTermsCall

SpecTerms == NameInit /\ [][TermsNext]_vars

(***************************************************************************)
(* Properties of process_batch.                                            *)
(***************************************************************************)
Count(q, x) == Cardinality({ k \in 1..Len(q) : q[k] = x })

Finished(c) == op[c] = "process" /\ pc[c] = "done" /\ resp[c].kind = "process"

\* the run has loaded the catalog document
Loaded(c) == op[c] = "process" /\ pb[c].lookup # "none"

\* the items that were marked successful inside the loop
Tentative(f) == { k \in 1..Len(f.results) : f.results[k].tonie_entry # <<>> }

\* the write of the run was attempted and raised
WriteFailed(c) ==
    /\ Finished(c)
    /\ "save_tonies_custom_json" \in Range(io[c])
    /\ pb[c].saved = <<>>

\* C1: an item of the final response has success = TRUE only if the one
\* catalog write of the run completed and the written document holds the
\* entry made for the item.
C1_SuccessOnlyIfPersisted ==
    \A c \in Calls : Finished(c) =>
        \A k \in 1..Len(resp[c].items) :
            resp[c].items[k].success =>
                /\ Len(pb[c].saved) = 1
                /\ Count(io[c], "save_tonies_custom_json") = 1
                /\ resp[c].items[k].tonie_entry # <<>>
                /\ resp[c].items[k].tonie_entry[1] \in Range(pb[c].saved[1])

\* C1 witness: a finished run that reports an item successful.
C1_Witness ==
    \E c \in Calls : Finished(c) /\ \E k \in 1..Len(resp[c].items) :
        resp[c].items[k].success

\* C2: when the catalog write fails, the final response has successful = 0
\* and failed = the number of selections, and every item carries the write
\* error.
C2_WriteFailureFailsAll ==
    \A c \in Calls : WriteFailed(c) =>
        /\ resp[c].successful = 0
        /\ resp[c].failed = Len(pb[c].selections)
        /\ resp[c].total = Len(pb[c].selections)
        /\ Len(resp[c].items) = Len(pb[c].selections)
        /\ \A k \in 1..Len(resp[c].items) :
              /\ ~resp[c].items[k].success
              /\ resp[c].items[k].error = SaveErrorText

\* C2 witness: a run of two selections whose write failed.
C2_Witness == \E c \in Calls : WriteFailed(c) /\ Len(pb[c].selections) = 2

\* the number the model-number lookup of the run gave
FirstModel(f) == IF f.lookup = "returned" THEN ToInt(GetNextCustomModelNumber(f.file))
                 ELSE FallbackModel

\* C3 (as stated): once the document has loaded, every selection the loop
\* has passed has the next sequence number and the next model number, its
\* entry is appended and its item is marked successful before the write,
\* with an empty cover path allowed.
C3_EverySelectionAllocated ==
    \A c \in Calls : (Loaded(c) /\ pc[c] \in {"select", "save"}) =>
        LET f == pb[c]
        IN  /\ Len(f.results) = f.i - 1
            /\ Len(f.current_tonies) = Len(f.loaded) + Len(f.results)
            /\ \A k \in 1..Len(f.results) :
                  /\ f.results[k].success
                  /\ f.results[k].model_number = Digits(FirstModel(f) + k - 1)
                  /\ f.results[k].tonie_entry # <<>>
                  /\ f.current_tonies[Len(f.loaded) + k] = f.results[k].tonie_entry[1]
                  /\ f.results[k].tonie_entry[1].no = Digits(MaxNo(f.loaded, -1) + k)
                  /\ f.results[k].tonie_entry[1].model = f.results[k].model_number
                  /\ f.results[k].tonie_entry[1].series = f.selections[k].series

\* a step in which request c issues the catalog write
IssuesSave(c) ==
    /\ Len(io'[c]) = Len(io[c]) + 1
    /\ io'[c][Len(io'[c])] = "save_tonies_custom_json"

\* C4: the catalog is written at most once in a run, after every selection
\* has been processed, and only if the document loaded and an item was marked
\* successful; a run whose load failed or in which no item succeeded issues
\* no write and no reload signal, and the document changes in no other step.
C4_AtMostOneWrite ==
    /\ [][ \A c \in Calls :
             /\ IssuesSave(c) =>
                  /\ "save_tonies_custom_json" \notin Range(io[c])
                  /\ Loaded(c)
                  /\ pb[c].i = Len(pb[c].selections) + 1
                  /\ Len(pb[c].results) = Len(pb[c].selections)
                  /\ pb[c].successful > 0
                  /\ \E k \in 1..Len(pb[c].results) : pb[c].results[k].success
             /\ (catalog' # catalog) => \E d \in Calls : IssuesSave(d) ]_vars
    /\ [] \A c \in Calls :
             (Finished(c) /\ (~Loaded(c) \/ Tentative(pb[c]) = {})) =>
                  /\ "save_tonies_custom_json" \notin Range(io[c])
                  /\ "trigger_config_reload" \notin Range(io[c])
                  /\ pb[c].saved = <<>>

\* C4 witness: a run in which every selection failed and that ended without
\* a write.
C4_Witness ==
    \E c \in Calls :
        /\ Finished(c) /\ Loaded(c)
        /\ Len(pb[c].selections) = 2
        /\ Tentative(pb[c]) = {}
        /\ "save_tonies_custom_json" \notin Range(io[c])

\* the entries of the items marked successful, in the order of the items
RECURSIVE NewEntries(_)
NewEntries(results) ==
    IF results = <<>> THEN <<>>
    ELSE Head(results).tonie_entry \o NewEntries(Tail(results))

\* C5: the document written is the loaded document, every entry unchanged
\* and in place, followed by one new entry per successful selection in input
\* order, each built from its selection; nothing is appended for a failed one.
C5_WriteAppendsOnly ==
    \A c \in Calls : \A j \in 1..Len(pb[c].saved) :
        LET f == pb[c]
            d == f.saved[j]
        IN  /\ d = f.loaded \o NewEntries(f.results)
            /\ Len(d) = Len(f.loaded) + Cardinality(Tentative(f))
            /\ \A k \in 1..Len(f.results) :
                  f.results[k].tonie_entry # <<>> =>
                     /\ f.results[k].tonie_entry[1].series = f.selections[k].series
                     /\ f.results[k].tonie_entry[1].title = f.selections[k].series
                     /\ f.results[k].tonie_entry[1].pic = f.results[k].cover_path

\* C5 witness: a document written over a non-empty loaded document with two
\* new entries.
C5_Witness ==
    \E c \in Calls :
        /\ Len(pb[c].saved) = 1
        /\ Len(pb[c].loaded) = 2
        /\ Len(pb[c].saved[1]) = 4

\* C6 (as stated): for every content of the catalog file the number returned
\* is available, that is, it is not the model of any entry of the file; it is
\* 900001 when the file is missing or cannot be read.
C6_NextModelAvailable ==
    \A c \in Calls : (op[c] = "process" /\ pb[c].lookup = "returned") =>
        LET file == pb[c].file
            got == pb[c].next_model.s
        IN  IF file.st = "ok" /\ ~LookupRaisesInside(file.tonies)
            THEN \A k \in 1..Len(file.tonies) : file.tonies[k].model # got
            ELSE got = Digits(FallbackModel)

Analyzed(c) == op[c] = "analyze" /\ pc[c] = "done" /\ resp[c].kind = "analyze"

NoRepeats(seq) == \A i, j \in 1..Len(seq) : seq[i] = seq[j] => i = j

\* C8: in every response of Analyze the i-th result is for the i-th input
\* path, whatever the directories of the paths and the order in which the
\* directory fetches complete.  (Stated for lists that name no path twice;
\* a repeated path has a single entry in the dict of headers.)
C8_ResultsInInputOrder ==
    \A c \in Calls :
        (Analyzed(c) /\ NoRepeats(an[c].taf_paths)) =>
            /\ Len(resp[c].results) = Len(an[c].taf_paths)
            /\ \A i \in 1..Len(an[c].taf_paths) :
                  resp[c].results[i].taf_path = an[c].taf_paths[i]

DirFailed(c, d) == DictHas(an[c].fetched, d) /\ ~DictGet(an[c].fetched, d).ok

ResultsFor(c, path) == { k \in 1..Len(resp[c].results) : resp[c].results[k].taf_path = path }

\* C9: Analyze completes whatever directory fetches fail; every directory
\* has been fetched (none is cancelled), every input path has a result, a
\* path of a failed directory has no identifier and no hash, and a path of
\* any other directory carries what the listing of its own directory holds.
C9_FailureBlanksOnlyItsDirectory ==
    \A c \in Calls :
        (op[c] = "analyze" /\ pc[c] = "done" /\ resp[c].kind # "rejected") =>
            /\ Analyzed(c)
            /\ an[c].pending = {}
            /\ \A path \in Range(an[c].taf_paths) :
                  /\ DictHas(an[c].fetched, path.dir)
                  /\ ResultsFor(c, path) # {}
                  /\ \A k \in ResultsFor(c, path) :
                        LET r == resp[c].results[k]
                            got == IF DirFailed(c, path.dir) THEN EmptyInfo
                                   ELSE HeaderInfo(Listing(path.dir), path)
                        IN  r.audio_id = got.audio_id /\ r.hash = got.hash

\* One directory has failed after another one had stored an identifier.
C9_Witness ==
    \E c \in Calls :
        /\ Analyzed(c)
        /\ \E p, q \in Range(an[c].taf_paths) :
              /\ DirFailed(c, p.dir)
              /\ ~DirFailed(c, q.dir)
              /\ DictKeys(an[c].fetched) = <<q.dir, p.dir>>
              /\ \E k \in ResultsFor(c, q) : resp[c].results[k].audio_id # NoneT
              /\ \E k \in ResultsFor(c, p) : resp[c].results[k].audio_id = NoneT

(***************************************************************************)
(* The caps of the three handlers.                                         *)
(***************************************************************************)
Arrived(c) == pc[c] # "idle"

Oversized(c) ==
    \/ op[c] = "analyze" /\ Len(an[c].taf_paths) > MaxAnalyzeBatch
    \/ op[c] = "search" /\ Len(sm[c].items) > MaxSearchBatch
    \/ op[c] = "process" /\ Len(pb[c].selections) > MaxProcessBatch

\* C10: a request over the cap of its handler is answered with the error
\* of the handler and has made no collaborator call: nothing was loaded,
\* listed, searched, downloaded or written for it.
C10_OversizedRejectedBeforeAnyCall ==
    \A c \in Calls :
        (Arrived(c) /\ Oversized(c)) =>
            /\ pc[c] = "done"
            /\ resp[c].kind = "rejected" /\ resp[c].status = 400
            /\ io[c] = <<>>
            /\ pb[c].saved = <<>> /\ pb[c].loaded = <<>>
            /\ an[c].fetched = <<>> /\ sm[c].terms = <<>>

\* An Analyze request of one path more than the cap has been rejected.
C10_Witness ==
    \E c \in Calls :
        /\ Arrived(c) /\ Oversized(c) /\ resp[c].kind = "rejected"
        /\ op[c] = "analyze" /\ Len(an[c].taf_paths) = MaxAnalyzeBatch + 1

(***************************************************************************)
(* Catalog positions carried by selections.                                *)
(***************************************************************************)
\* The position a selection carries no longer names the entry it was
\* derived from: the official catalog now holds another series there.
StaleIndex(sel) ==
    /\ sel.tonie_index # NoIndex
    /\ sel.tonie_index + 1 \in 1..Len(OfficialTonies)
       => OfficialTonies[sel.tonie_index + 1].series # sel.series

\* C11: the position a selection carries is never interpreted against a
\* snapshot of the official catalog: process_batch loads no snapshot, and
\* every entry it stores names the series, the episodes, the identifier and
\* the hash of the selection itself.
C11_StaleIndexNeverInterpreted ==
    \A c \in Calls :
        op[c] = "process" =>
            /\ \A k \in 1..Len(io[c]) : io[c][k] # "get_tonies_json"
            /\ \A k \in 1..Len(pb[c].results) :
                  pb[c].results[k].tonie_entry # <<>> =>
                      LET sel == pb[c].selections[k]
                          entry == pb[c].results[k].tonie_entry[1]
                      IN  /\ entry.series = sel.series /\ entry.title = sel.series
                          /\ entry.episodes = sel.episodes
                          /\ entry.audio_id = (IF Truthy(sel.audio_id) THEN <<sel.audio_id>> ELSE <<>>)
                          /\ entry.hash = (IF Truthy(sel.hash) THEN <<sel.hash>> ELSE <<>>)

\* A selection with a stale position has been stored and the batch is done.
C11_Witness ==
    \E c \in Calls :
        /\ op[c] = "process" /\ pc[c] = "done" /\ pb[c].saved # <<>>
        /\ \E k \in 1..Len(pb[c].results) :
              /\ pb[c].results[k].success
              /\ StaleIndex(pb[c].selections[k])

(***************************************************************************)
(* The cache of the matching service.                                      *)
(***************************************************************************)
CacheLoaded == an[1].last_load # NoTime

\* C12: is_cache_valid is true exactly when a load has occurred and the
\* clock is less than the TTL past it; it is false before any load, true
\* right after a load, and once the TTL has passed it stays false while
\* the load time stays the same; only a load changes the load time.
C12_CacheValidity ==
    /\ [](IsCacheValid(an[1], now) <=> (CacheLoaded /\ now < an[1].last_load + CacheTtl))
    /\ [](~CacheLoaded => ~IsCacheValid(an[1], now))
    /\ [][an'[1] # an[1] => (an'[1].last_load = now /\ IsCacheValid(an'[1], now'))]_vars
    /\ [][an'[1].last_load # an[1].last_load => an'[1].last_load = now]_vars
    /\ [][(CacheLoaded /\ ~IsCacheValid(an[1], now) /\ an'[1].last_load = an[1].last_load)
            => ~IsCacheValid(an'[1], now')]_vars

\* The cache was valid a minute ago and the same load is now exactly the
\* TTL old.
C12_Witness ==
    /\ CacheLoaded
    /\ now = an[1].last_load + CacheTtl
    /\ IsCacheValid(an[1], now - 1) /\ ~IsCacheValid(an[1], now)

(***************************************************************************)
(* Series similarity.                                                      *)
(***************************************************************************)
\* C15: the series similarity of x with itself is 1.0 for every non-empty
\* text x that _normalize_text returns.
C15_SimilarityReflexive ==
    (fn.f = "similarity" /\ fn.x # <<>>) => fn.sim = One

(***************************************************************************)
(* match_single.                                                           *)
(***************************************************************************)
Matched == fn.f = "matched"

\* The confidence of the entry at position k of the catalog of the call
EntryConfidence(k) ==
    LET tonie == fn.in.tonies[k]
    IN  Confidence(SeriesSimilarity(fn.in.series, tonie.series, fn.in.fuzzy.series),
                   EpisodeSimilarity(fn.in.episode, tonie.episodes, fn.in.fuzzy.episode))

Qualifying == { k \in 1..Len(fn.in.tonies) : EntryConfidence(k) >= 10 * WeakMatchThreshold }

Returned == { fn.out.candidates[k].tonie_index + 1 : k \in 1..Len(fn.out.candidates) }

\* No score of the call comes from rapidfuzz: every series equals or
\* contains the query or is empty, and no pair of episodes is compared as
\* text.
NoFuzzyScore ==
    \A x \in FuzzyScores :
        \A k \in 1..Len(fn.in.tonies) :
            LET tonie == fn.in.tonies[k]
            IN  /\ SeriesSimilarity(fn.in.series, tonie.series, x)
                     = SeriesSimilarity(fn.in.series, tonie.series, 0)
                /\ EpisodeSimilarity(fn.in.episode, tonie.episodes, x)
                     = EpisodeSimilarity(fn.in.episode, tonie.episodes, 0)

\* C13: with a series given, match_single returns the max_candidates
\* entries of highest confidence among all entries of the catalog whose
\* confidence is at least the weak threshold, or all of them when they are
\* fewer; the best match is at least as confident as every entry.  (Stated
\* for calls in which no score comes from rapidfuzz.)
C13_TopCandidatesOfCatalog ==
    (Matched /\ ~Absent(fn.in.series) /\ NoFuzzyScore) =>
        /\ Returned \subseteq Qualifying
        /\ Cardinality(Returned) = Min(fn.in.max, Cardinality(Qualifying))
        /\ \A i \in Returned : \A j \in Qualifying \ Returned :
              EntryConfidence(i) >= EntryConfidence(j)
        /\ fn.out.best_match # <<>> =>
              \A k \in 1..Len(fn.in.tonies) :
                  fn.out.best_match[1].confidence >= EntryConfidence(k)

NonIncreasing(candidates) ==
    \A i, j \in 1..Len(candidates) :
        i < j => candidates[i].confidence >= candidates[j].confidence

\* C14: in every result of match_single the candidates are in
\* non-increasing order of confidence, at most max_candidates, each at
\* least as confident as the weak threshold; best_match is the first
\* candidate and absent exactly when there is none; auto_selected says that
\* best_match exists with a confidence of at least the auto threshold; an
\* absent series or an empty catalog gives no candidate and no
\* auto-selection.
C14_MatchResultShape ==
    Matched =>
        LET candidates == fn.out.candidates
        IN  /\ NonIncreasing(candidates)
            /\ Len(candidates) <= fn.in.max
            /\ \A k \in 1..Len(candidates) :
                  candidates[k].confidence >= 10 * WeakMatchThreshold
            /\ fn.out.best_match = (IF candidates = <<>> THEN <<>> ELSE <<candidates[1]>>)
            /\ fn.out.auto_selected <=>
                  (fn.out.best_match # <<>>
                     /\ fn.out.best_match[1].confidence >= 10 * AutoMatchThreshold)
            /\ (Absent(fn.in.series) \/ fn.in.tonies = <<>>) =>
                  (candidates = <<>> /\ ~fn.out.auto_selected)

\* An auto-selected best match is followed by a less confident candidate
\* that stands before it in the catalog.
C14_Witness ==
    /\ Matched
    /\ fn.out.auto_selected
    /\ Len(fn.out.candidates) = 2
    /\ fn.out.candidates[1].confidence > fn.out.candidates[2].confidence
    /\ fn.out.candidates[1].tonie_index > fn.out.candidates[2].tonie_index

(***************************************************************************)
(* TAFParser.parse.                                                        *)
(***************************************************************************)
Parsed == fn.f = "parsed"

\* C16: parse fails exactly for the files shorter than the header size; a
\* longer file gives a header whatever its bytes are and whatever happens
\* while the cover is looked for: a failed read or an image that does not
\* verify leaves the header without a cover.
C16_FailsOnlyWhenShort ==
    Parsed =>
        /\ fn.out.ok <=> fn.in.size >= HEADER_SIZE
        /\ (fn.out.ok /\ (fn.in.rest.read = "raises"
                            \/ (fn.in.rest.jpeg # "valid" /\ fn.in.rest.png # "valid")))
              => (fn.out.cover_image = <<>> /\ ~fn.out.metadata.fallback)

\* A file of exactly the header size whose JPEG candidate does not verify
\* and which holds no PNG has been parsed.
C16_Witness ==
    /\ Parsed /\ fn.out.ok
    /\ fn.in.size = HEADER_SIZE
    /\ fn.in.rest.jpeg = "invalid" /\ fn.in.rest.png = "none"
    /\ fn.out.cover_image = <<>>

\* The raw values at offsets 0x1C and 0x20 of the parsed file
RawTracks == CHOOSE n \in TrackRaws : PackLE(n) = fn.in.tracks
RawQuality == CHOOSE n \in QualityRaws : PackLE(n) = fn.in.quality

\* C17: the reported track count is the raw value when it lies in 1..500
\* and 0 otherwise; the reported quality is the raw value when it is at
\* most 100 and min(raw div 1000, 100) otherwise; so the track count lies
\* in 0..500 and the quality in 0..100.
C17_TrackCountAndQuality ==
    (Parsed /\ fn.out.ok) =>
        LET m == fn.out.metadata
            hundredfold == QualityLimit * QualityDivisor
            large == RawQuality.hi > hundredfold \div Half
                       \/ (RawQuality.hi = hundredfold \div Half
                             /\ RawQuality.lo >= hundredfold % Half)
        IN  /\ m.tracks = (IF RawTracks.hi = 0 /\ RawTracks.lo \in 1..TrackLimit
                           THEN RawTracks.lo ELSE 0)
            /\ m.confidence =
                  (IF RawQuality.hi = 0 /\ RawQuality.lo <= QualityLimit THEN RawQuality.lo
                   ELSE IF large THEN QualityLimit
                   ELSE (RawQuality.hi * Half + RawQuality.lo) \div QualityDivisor)
            /\ m.tracks \in 0..TrackLimit
            /\ m.confidence \in 0..QualityLimit

\* A raw track count beyond 16 bits whose low half is in range is reported
\* as 0, next to a raw quality that is clamped to 100.
C17_Witness ==
    /\ Parsed /\ fn.out.ok
    /\ RawTracks = U32(1, 1) /\ fn.out.metadata.tracks = 0
    /\ RawQuality = U32(Half - 1, Half - 1) /\ fn.out.metadata.confidence = QualityLimit

(***************************************************************************)
(* FilenameParser.parse_filename.                                          *)
(***************************************************************************)
NameParsed == fn.f = "filename_parsed"

\* C18: parse_filename returns the extraction of the first of its three
\* patterns that matches and mixes no fields of two patterns: author and
\* category are set exactly when pattern 1 matches, pattern 1 gives the
\* episode 'Folge N' with N as it is written in the name, pattern 3 gives
\* the whole name as series and the episode 'Folge 1'; the example name
\* gives author 'Margit Auer', series 'Die Schule der magischen Tiere',
\* category 'hoerspiel' and episode 'Folge 01'.
C18_FirstMatchingPattern ==
    NameParsed =>
        LET name == StemOf(fn.in)
            out == fn.out
        IN  /\ out.author # NoneW <=> Pattern1Matches(name)
            /\ out.category # NoneW <=> Pattern1Matches(name)
            /\ Pattern1Matches(name) =>
                  /\ out = Pattern1Result(name)
                  /\ Len(out.episode) = 3 /\ out.episode[1] = "Folge" /\ out.episode[2] = " "
                  /\ out.episode[3] \in DigitTokens \cap Range(Segments(name)[4])
            /\ (~Pattern1Matches(name) /\ Pattern2Matches(name)) => out = Pattern2Result(name)
            /\ (~Pattern1Matches(name) /\ ~Pattern2Matches(name)) =>
                  (out.series = Strip(name) /\ out.episode = <<"Folge", " ", "1">>)
            /\ fn.in = ExampleName =>
                  /\ out.author = <<"Margit", " ", "Auer">>
                  /\ out.series = <<"Die", " ", "Schule", " ", "der", " ", "magischen", " ", "Tiere">>
                  /\ out.category = <<"hoerspiel">>
                  /\ out.episode = <<"Folge", " ", "01">>

\* The example name has been parsed by pattern 1.
C18_Witness ==
    /\ NameParsed
    /\ fn.in = ExampleName
    /\ Pattern1Matches(StemOf(fn.in)) /\ Pattern2Matches(StemOf(fn.in))
    /\ fn.out.author = <<"Margit", " ", "Auer">>

TermsBuilt == fn.f = "search_terms"

\* The queries made of the series alone
BareSeries(parsed) ==
    { parsed.series \o <<" ">> \o kind \o <<"cover">> :
        kind \in { <<>>, <<"hörbuch", " ">>, <<"audiobook", " ">>, <<"book", " ">> } }

\* The queries made of the series and the episode
SeriesAndEpisode(parsed) ==
    { parsed.series \o <<" ">> \o parsed.episode \o <<" ">> \o kind \o <<"cover">> :
        kind \in { <<>>, <<"hörbuch", " ">>, <<"audiobook", " ">> } }

C19_NoQueryTwice == TermsBuilt => NoRepeats(fn.terms)

C19_MostToLeastSpecific ==
    (TermsBuilt /\ Present(fn.parsed.series) /\ Present(fn.parsed.episode)) =>
        /\ fn.terms[1] \in SeriesAndEpisode(fn.parsed)
        /\ fn.terms[Len(fn.terms)] \in BareSeries(fn.parsed)
        /\ \A i, j \in 1..Len(fn.terms) :
              (fn.terms[i] \in BareSeries(fn.parsed) /\ i < j) =>
                  fn.terms[j] \in BareSeries(fn.parsed)

\* C19: for every structure that parse_filename returns, no query occurs
\* twice in the list of extract_search_terms, the list starts with a query
\* of series and episode, it ends with a query of the bare series, and no
\* more specific query follows a query of the bare series.
C19_DeduplicatedFromMostToLeastSpecific ==
    C19_NoQueryTwice /\ C19_MostToLeastSpecific

Repeated == pc[1] = "done" /\ pc[2] = "done"

C20_SameResponse == [](Repeated => resp[2] = resp[1])

C20_SameCatalog == [][pc[1] = "done" => catalog' = catalog]_vars

NumericNos(doc) ==
    { IF doc[k].no = NoKey THEN 0 ELSE ToInt(doc[k].no) :
        k \in { j \in 1..Len(doc) : doc[j].no = NoKey \/ IsNumeral(doc[j].no) } }

\* C21: in every run the items stand in the order of the selections, and the
\* entries created so far carry strictly increasing sequence numbers and
\* strictly increasing model numbers in that order (so none is shared), every
\* sequence number above every numeric 'no' of the loaded document.
C21_AllocationInInputOrder ==
    \A c \in Calls :
        op[c] = "process" =>
            LET created == NewEntries(pb[c].results)
            IN  /\ \A k \in 1..Len(pb[c].results) :
                      pb[c].results[k].taf_path = pb[c].selections[k].taf_path
                /\ \A i, j \in 1..Len(created) :
                      i < j => /\ ToInt(created[i].no) < ToInt(created[j].no)
                               /\ ToInt(created[i].model) < ToInt(created[j].model)
                /\ \A i \in 1..Len(created) :
                      \A n \in NumericNos(pb[c].loaded) : ToInt(created[i].no) > n

\* A finished run that created two entries on top of a document with a
\* numeric 'no' above zero.
C21_Witness ==
    \E c \in Calls :
        /\ Finished(c)
        /\ Len(NewEntries(pb[c].results)) = 2
        /\ pb[c].selections[1] # pb[c].selections[2]
        /\ \E n \in NumericNos(pb[c].loaded) : n > 0


(***************************************************************************)
(* Two overlapping runs of process_batch.                                  *)
(***************************************************************************)
\* Both runs have finished, both wrote, and both had loaded the document
\* before either wrote it.
Overlapped(c, d) ==
    /\ c # d /\ Finished(c) /\ Finished(d)
    /\ pb[c].saved # <<>> /\ pb[d].saved # <<>>
    /\ pb[c].loaded = pb[d].loaded

C23_NothingMutatedBeforeWrite ==
    (op[1] = "process" /\ pb[1].saved = <<>>) =>
        /\ pics = {}
        /\ Loaded(1) => catalog = pb[1].loaded


(***************************************************************************)
(* The queries of search_metadata_batch.                                   *)
(***************************************************************************)
\* the text of a field that may be null in the request
TextOf(v) == IF v = NoneW THEN <<>> ELSE v

\* C24: the query sent for an item whose series and episode are both null
\* is the name of its file without '.taf' and with spaces for underscores;
\* the query for an item of which one is given is made of the series and the
\* episode that are given.
C24_QueryFromNameWhenBothAbsent ==
    \A c \in Calls :
        op[c] = "search" =>
            \A k \in 1..Len(sm[c].terms) :
                LET item == sm[c].items[k]
                    given == Strip(TextOf(item.series) \o <<" ">> \o TextOf(item.episode))
                IN  /\ (item.series = NoneW /\ item.episode = NoneW) =>
                          sm[c].terms[k] = StemOf(item.taf_path.name)
                    /\ given # <<>> => sm[c].terms[k] = given


(***************************************************************************)
(* Analyze and the cache of the official catalog.                          *)
(***************************************************************************)
\* The matching service of the call as load_tonies leaves it
Engine(m) == <<m.tonies_list, m.series_index, m.last_load>>

\* Call c passes the cache check of analyze_batch in this step.
ChecksCache(c) == op[c] = "analyze" /\ pc[c] = "tonies" /\ pc'[c] = "headers"

\* Call c asks the server for tonies.json in this step.
FetchesCatalog(c) ==
    Count(io'[c], "get_tonies_json") = Count(io[c], "get_tonies_json") + 1

\* The result of one file matched against a snapshot
MatchedAgainst(tonies_list, result) ==
    MatchSingle(Snapshot(tonies_list), result.parsed_series, result.parsed_episode,
                MaxCandidatesPerFile, NothingInCommon)

\* C25: analyze_batch asks for tonies.json exactly when is_cache_valid() is
\* false at its start.  A fetch either loads the list, the index and the
\* load time together or, when it fails, leaves all three as they were;
\* the call then still answers with a result for every file, matched
\* against the snapshot the service holds, and with an empty snapshot
\* every file is unmatched.
C25_FetchOnlyWhenCacheInvalid ==
    /\ [][\A c \in Calls : ChecksCache(c) =>
            /\ FetchesCatalog(c) <=> ~IsCacheValid(an[c], now)
            /\ ~FetchesCatalog(c) => Engine(an'[c]) = Engine(an[c])
            /\ FetchesCatalog(c) =>
                  \/ Engine(an'[c]) = Engine(an[c])
                  \/ Engine(an'[c]) = <<OfficialTonies, BuildIndex(OfficialTonies, 0, <<>>), now>>]_vars
    /\ [](\A c \in Calls :
            (op[c] = "analyze" /\ pc[c] = "done" /\ ~Oversized(c) /\ an[c].taf_paths # <<>>) =>
                /\ resp[c].kind = "analyze"
                /\ resp[c].total = Len(resp[c].results)
                /\ \A k \in 1..Len(resp[c].results) :
                      resp[c].results[k].candidates
                          = MatchedAgainst(an[c].tonies_list, resp[c].results[k]).candidates
                /\ an[c].tonies_list = <<>> =>
                      /\ resp[c].unmatched = resp[c].total
                      /\ \A k \in 1..Len(resp[c].results) :
                            resp[c].results[k].candidates = <<>>)

\* The cache of the service had expired, the fetch failed, and the call has
\* answered from the empty list the service still holds: its file is
\* unmatched.
C25_Witness ==
    /\ op[1] = "analyze" /\ pc[1] = "done" /\ resp[1].kind = "analyze"
    /\ Count(io[1], "get_tonies_json") = 1
    /\ an[1].last_load # NoTime /\ an[1].tonies_list = <<>>
    /\ resp[1].total = 1 /\ resp[1].unmatched = 1


\* C26: in every state, and so wherever a task is suspended, the series
\* index of each matching service is the index built from the list that
\* service holds; every result of an analysis is the match of its file
\* against the one list the service of that analysis holds; and no step of
\* one analysis changes the list, the index or the load time of the
\* service of another.
C26_NoHalfUpdatedEngine ==
    /\ [](\A c \in Calls :
            /\ an[c].series_index = BuildIndex(an[c].tonies_list, 0, <<>>)
            /\ Analyzed(c) =>
                  \A k \in 1..Len(resp[c].results) :
                      LET result == resp[c].results[k]
                          match == MatchedAgainst(an[c].tonies_list, result)
                      IN  /\ result.candidates = match.candidates
                          /\ result.best_match = match.best_match
                          /\ result.auto_selected = match.auto_selected)
    /\ [][\A c, d \in Calls :
            (c # d /\ ChecksCache(d)) => Engine(an'[c]) = Engine(an[c])]_vars

\* The second analysis arrived later, failed to load the catalog and has
\* answered from its empty list, while the first, which loaded the catalog
\* and built its index, is still waiting for its directory listing.
C26_Witness ==
    /\ op[1] = "analyze" /\ pc[1] = "headers"
    /\ an[1].tonies_list = OfficialTonies /\ Len(an[1].series_index) = Len(OfficialTonies)
    /\ Analyzed(2) /\ an[2].tonies_list = <<>>
    /\ resp[2].total = 2 /\ resp[2].unmatched = 2


(***************************************************************************)
(* The tallies of an Analyze response.                                     *)
(***************************************************************************)
\* The classes of the claim a result belongs to
ClassesOf(result) ==
    { cls \in {"auto", "review", "none"} :
        \/ cls = "auto" /\ result.auto_selected
        \/ cls = "review" /\ ~result.auto_selected /\ result.candidates # <<>>
        \/ cls = "none" /\ result.candidates = <<>> }

\* The number of results of call c in a class
InClass(c, cls) ==
    Cardinality({ k \in 1..Len(resp[c].results) : cls \in ClassesOf(resp[c].results[k]) })

Compared == fn.f = "episode_similarity"

\* None or the empty text
NoEpisode(described) == described.text = <<"<None>">> \/ described.text = <<>>

\* C28: the episode similarity is 1.0 when both descriptions are absent,
\* 0.5 when exactly one is, and, when both are present and each holds an
\* episode number, 1.0 for equal numbers and 0.2 for different ones,
\* whatever text surrounds the numbers.
C28_EpisodeSimilarityByNumber ==
    Compared =>
        /\ (NoEpisode(fn.query) /\ NoEpisode(fn.target)) => fn.sim = 10000
        /\ (NoEpisode(fn.query) # NoEpisode(fn.target)) => fn.sim = 5000
        /\ (fn.query.number # <<>> /\ fn.target.number # <<>>) =>
               fn.sim = (IF fn.query.number = fn.target.number THEN 10000 ELSE 2000)

\* 'Folge 3' has been compared with 'Episode 3' where rapidfuzz scores the
\* two texts below 1.0, and the similarity is 1.0.
C28_Witness ==
    /\ Compared
    /\ fn.query.text = <<"F", "o", "l", "g", "e", " ", "3">>
    /\ fn.target.text = <<"E", "p", "i", "s", "o", "d", "e", " ", "3">>
    /\ fn.fuzzy < One
    /\ fn.sim = One


(***************************************************************************)
(* The counts of a ProcessBatch response.                                  *)
(***************************************************************************)
\* C29: in every response of process_batch successful + failed = total,
\* total is the number of selections and the number of items, item k
\* belongs to selection k, and successful is the number of items whose
\* success flag is true.
C29_CountsAgreeOnEveryPath ==
    \A c \in Calls :
        Finished(c) =>
            /\ resp[c].successful + resp[c].failed = resp[c].total
            /\ resp[c].total = Len(pb[c].selections)
            /\ resp[c].total = Len(resp[c].items)
            /\ \A k \in 1..Len(resp[c].items) :
                  resp[c].items[k].taf_path = pb[c].selections[k].taf_path
            /\ resp[c].successful
                  = Cardinality({ k \in 1..Len(resp[c].items) : resp[c].items[k].success })

\* The write of a run of two selections raised: both items, successful
\* inside the loop, are reported failed.
C29_Witness ==
    \E c \in Calls :
        /\ WriteFailed(c)
        /\ Cardinality(Tentative(pb[c])) = 2
        /\ resp[c].total = 2 /\ resp[c].failed = 2 /\ resp[c].successful = 0
        /\ pb[c].selections[1].taf_path # pb[c].selections[2].taf_path


(***************************************************************************)
(* The header a successful parse returns.                                  *)
(***************************************************************************)
HexChars ==
    { "0", "1", "2", "3", "4", "5", "6", "7", "8", "9", "a", "b", "c", "d", "e", "f" }

\* C30: parse never returns what _fallback_parse builds: a file that
\* passes the length check is decoded by the fixed layout, and its header
\* holds an identifier and a hash of 40 hexadecimal characters; a file
\* that does not pass is refused with an error.
C30_FallbackNeverReached ==
    Parsed =>
        /\ fn.out.ok =>
              /\ ~fn.out.metadata.fallback
              /\ {"audio_id", "hash"} \subseteq DOMAIN fn.out.metadata
              /\ fn.out.metadata.audio_id = UnpackLE(fn.in.audio)
              /\ Len(fn.out.metadata.hash) = 40
              /\ Range(fn.out.metadata.hash) \subseteq HexChars
        /\ ~fn.out.ok => DOMAIN fn.out = {"ok", "error"}

\* A file of exactly 4096 bytes whose identifier field is zero has been
\* parsed: the header comes from the fixed layout and holds the identifier
\* 0 and a hash of 40 characters.
C30_Witness ==
    /\ Parsed /\ fn.out.ok
    /\ fn.in.size = HEADER_SIZE
    /\ ~fn.out.metadata.fallback
    /\ fn.out.metadata.audio_id = U32(0, 0)
    /\ Len(fn.out.metadata.hash) = 40

====
